---- MODULE Spec2Model ----
(***************************************************************************)
(* Workout-routine backend (FastAPI + PostgreSQL): day resolution of the   *)
(* active routine, routine activation, day-slot editing and the workout    *)
(* generator.  The state is the content of the tables one user owns; every *)
(* action is one request handler together with the queries it runs.        *)
(***************************************************************************)
EXTENDS Integers, Sequences, FiniteSets, TLC

(***************************************************************************)
(* Bounds of the model.                                                    *)
(***************************************************************************)
MaxElapsedDays == 3     \* NOW() - created_at is followed for this many days
MaxDayNumber == 3       \* add_day stops once a routine holds this day_number
NumExercises == 4       \* rows of the `exercises` table
MaxRequests == 2       \* requests of the user that run at the same time
MaxSessions == 3       \* rows of workout_sessions
MaxDuration == 75       \* users.duration is followed up to this many minutes

(***************************************************************************)
(* SQL NULL / Python None of an integer column.                            *)
(***************************************************************************)
NULL == -1

COALESCE(a, b) == IF a # NULL THEN a ELSE b

SetMin(S) == CHOOSE x \in S : \A y \in S : x <= y

SetMax(S) == CHOOSE x \in S : \A y \in S : x >= y

(***************************************************************************)
(* HTTP status codes the handlers answer with.                             *)
(***************************************************************************)
HTTP_200_OK == 200
HTTP_201_CREATED == 201
HTTP_204_NO_CONTENT == 204
HTTP_400_BAD_REQUEST == 400
HTTP_404_NOT_FOUND == 404
HTTP_500_INTERNAL_SERVER_ERROR == 500

(***************************************************************************)
(* Seed data: the `routines` / `routine_days` / `routine_day_focus_areas`  *)
(* rows.  Two of the seeded templates are kept: 'Push, Pull' (id 4, two    *)
(* days) and 'Custom' (id 8, no day).                                      *)
(***************************************************************************)
routines == {4, 8}

FocusAreaIds == {1, 2}

routine_days == [r \in routines |-> IF r = 4 THEN {1, 2} ELSE {}]

routine_day_focus_areas == [r \in routines |-> [d \in routine_days[r] |-> IF d = 1 THEN {1, 2} ELSE {2}]]

VARIABLES
    users,                \* ids of the rows of `users`
    elapsed_days,         \* EXTRACT(DAY FROM (NOW() - users.created_at))
    user_routines,        \* routine_id -> [is_active, current_day_number]
    user_routine_days,    \* routine_id -> (day_number -> day content)
    last,                 \* the handler that ran last and its response
    exercises,            \* exercise id -> row of `exercises` and its link tables
    user_profile,         \* the generator's columns of the `users` row and its link tables
    user_excluded_exercises_forever,  \* exercise ids
    user_excluded_exercises_today,    \* rows [exercise_id, excluded_date]
    user_generated_exercises,         \* exercise ids of the stored assignment
    response,             \* detail and body of the generator's last response
    printed,              \* the composition line the generator printed last
    user_custom_exercises, \* exercise ids of the user's temporary custom list
    workout_sessions,     \* rows [id, status] of the user's workout sessions
    in_flight             \* request id -> position and locals of a handler that has not answered yet

genVars == <<exercises, user_profile, user_excluded_exercises_forever, user_excluded_exercises_today, user_generated_exercises, response, printed, user_custom_exercises, workout_sessions, in_flight>>

vars == <<users, elapsed_days, user_routines, user_routine_days, last, exercises, user_profile, user_excluded_exercises_forever, user_excluded_exercises_today, user_generated_exercises, response, printed, user_custom_exercises, workout_sessions, in_flight>>

UserId == 1

(***************************************************************************)
(* PostgreSQL integer `%`: the remainder takes the sign of the dividend.   *)
(***************************************************************************)
SqlMod(a, b) == IF a >= 0 THEN a % b ELSE 0 - ((0 - a) % b)

(***************************************************************************)
(* Day resolution.  Each of the three read queries carries its own copy of *)
(* the CTE pair ActiveRoutineInfo / CurrentWorkoutDay.                     *)
(***************************************************************************)
total_routine_days(r) == Cardinality(DOMAIN user_routine_days[r])

ActiveRoutineInfo == {r \in DOMAIN user_routines : user_routines[r].is_active /\ total_routine_days(r) > 0}

CurrentWorkoutDay_generation_ignores_override(r) == SqlMod(elapsed_days, total_routine_days(r)) + 1

CurrentWorkoutDay_generation(r) == COALESCE(user_routines[r].current_day_number, SqlMod(elapsed_days, total_routine_days(r)) + 1)

CurrentWorkoutDay_status_no_plus_one(r) == COALESCE(user_routines[r].current_day_number, SqlMod(elapsed_days, total_routine_days(r)))

CurrentWorkoutDay_status(r) == COALESCE(user_routines[r].current_day_number, SqlMod(elapsed_days, total_routine_days(r)) + 1)

ActiveRoutine_current_day_number(r) == COALESCE(user_routines[r].current_day_number, SqlMod(elapsed_days, total_routine_days(r)) + 1)

\* rows of get_workout_day_status: CurrentWorkoutDay joined with the slot
\* whose day_number is today_day_number
get_workout_day_status == {[routine_id |-> r, today_day_number |-> CurrentWorkoutDay_status(r), total_routine_days |-> total_routine_days(r), exercise_mode |-> user_routine_days[r][CurrentWorkoutDay_status(r)].exercise_mode] : r \in {x \in ActiveRoutineInfo : CurrentWorkoutDay_status(x) \in DOMAIN user_routine_days[x]}}

\* GET /me/workout/status
get_current_workout_day_status == IF users = {} \/ get_workout_day_status = {} THEN [status |-> HTTP_404_NOT_FOUND, today_day_number |-> NULL] ELSE [status |-> HTTP_200_OK, today_day_number |-> (CHOOSE row \in get_workout_day_status : TRUE).today_day_number]

\* rows of get_active_routine_days: per active routine the day list with the
\* is_current_day flag
get_active_routine_days == {[routine_id |-> r, days |-> [d \in DOMAIN user_routine_days[r] |-> [is_current_day |-> (d = ActiveRoutine_current_day_number(r)), exercise_mode |-> user_routine_days[r][d].exercise_mode]]] : r \in ActiveRoutineInfo}

(***************************************************************************)
(* Account creation: INSERT INTO users fires the trigger                   *)
(* assign_default_routines_to_user, then set_initial_active_routine runs   *)
(* in the same transaction.                                                *)
(***************************************************************************)
NewDay(fas) == [exercise_mode |-> "focus_areas", focus_area_ids |-> fas, exercises |-> {}]

assign_default_routines_to_user(workouts_per_week) ==
    LET matching == {r \in routines : Cardinality(routine_days[r]) > 0 /\ Cardinality(routine_days[r]) = workouts_per_week}
    IN  [ur |-> [r \in routines |-> [is_active |-> (matching # {} /\ r = SetMin(matching)), current_day_number |-> NULL]],
         urd |-> [r \in routines |-> [d \in routine_days[r] |-> NewDay(routine_day_focus_areas[r][d])]]]

set_initial_active_routine(ur, routine_id) ==
    IF routine_id = 0 THEN ur
    ELSE [r \in DOMAIN ur |-> [ur[r] EXCEPT !.is_active = (r = routine_id)]]

WorkoutsPerWeekInputs == {2, 5}

RoutineIdInputs == {0, 4, 8, 99}

create_user(workouts_per_week, routine_id) ==
    /\ users = {}
    /\ LET t == assign_default_routines_to_user(workouts_per_week)
       IN  /\ users' = {UserId}
           /\ user_routines' = set_initial_active_routine(t.ur, routine_id)
           /\ user_routine_days' = t.urd
    /\ elapsed_days' = 0
    /\ last' = [op |-> "create_user", status |-> HTTP_201_CREATED, arg |-> NULL]
    /\ UNCHANGED genVars

\* one more whole day has passed since users.created_at
Tick ==
    /\ users # {}
    /\ elapsed_days < MaxElapsedDays
    /\ elapsed_days' = elapsed_days + 1
    /\ last' = [op |-> "tick", status |-> HTTP_200_OK, arg |-> NULL]
    /\ UNCHANGED <<users, user_routines, user_routine_days, genVars>>

(***************************************************************************)
(* PUT /user/me/active-routine                                             *)
(***************************************************************************)
update_active_routine(ur, routine_id) ==
    LET deactivated == [r \in DOMAIN ur |-> [ur[r] EXCEPT !.is_active = FALSE]]
    IN  [ur |-> [r \in DOMAIN ur |-> IF r = routine_id THEN [deactivated[r] EXCEPT !.is_active = TRUE] ELSE deactivated[r]],
         success |-> routine_id \in DOMAIN ur]

\* conn.transaction(): the HTTPException raised inside the block rolls the
\* two UPDATEs back
TransactionResult_no_rollback(before, after, success) == after

TransactionResult(before, after, success) == IF success THEN after ELSE before

update_user_active_routine(routine_id) ==
    /\ users # {}
    /\ LET res == update_active_routine(user_routines, routine_id)
       IN  /\ user_routines' = TransactionResult(user_routines, res.ur, res.success)
           /\ last' = [op |-> "update_active_routine", status |-> IF res.success THEN HTTP_200_OK ELSE HTTP_404_NOT_FOUND, arg |-> routine_id]
    /\ UNCHANGED <<users, elapsed_days, user_routine_days, genVars>>

(***************************************************************************)
(* PATCH /user/me/active-day                                               *)
(***************************************************************************)
\* the rows the UPDATE of set_active_day_for_user matches
set_active_day_for_user_rows(day_number) == {r \in DOMAIN user_routines : user_routines[r].is_active /\ day_number \in DOMAIN user_routine_days[r]}

set_active_day_for_user_unguarded(day_number) == [r \in DOMAIN user_routines |-> IF user_routines[r].is_active THEN [user_routines[r] EXCEPT !.current_day_number = day_number] ELSE user_routines[r]]

set_active_day_for_user(day_number) == [r \in DOMAIN user_routines |-> IF r \in set_active_day_for_user_rows(day_number) THEN [user_routines[r] EXCEPT !.current_day_number = day_number] ELSE user_routines[r]]

DayNumberInputs == 0 .. MaxDayNumber + 1

\* the rows left by DELETE FROM user_custom_exercises WHERE user_id = $1
clear_user_custom_exercises == {}

\* the custom exercises are cleared first, on a connection without a
\* transaction; the override is validated and written after that
update_user_active_day(day_number) ==
    /\ users # {}
    /\ user_routines' = set_active_day_for_user(day_number)
    /\ last' = [op |-> "set_active_day", status |-> IF set_active_day_for_user_rows(day_number) # {} THEN HTTP_201_CREATED ELSE HTTP_400_BAD_REQUEST, arg |-> day_number]
    /\ user_custom_exercises' = clear_user_custom_exercises
    /\ UNCHANGED <<users, workout_sessions, in_flight, elapsed_days, user_routine_days, exercises, user_profile, user_excluded_exercises_forever, user_excluded_exercises_today, user_generated_exercises, response, printed>>

(***************************************************************************)
(* POST / DELETE /user/me/routines/{user_routine_id}/days                  *)
(***************************************************************************)
\* path parameter user_routine_id: the user's copy of routine 4, or an id
\* that is not one of the user's routines
UserRoutineIdInputs == {4, 99}

add_day_to_user_routine(user_routine_id) ==
    LET next_day_number == IF DOMAIN user_routine_days[user_routine_id] = {} THEN 1 ELSE SetMax(DOMAIN user_routine_days[user_routine_id]) + 1
    IN  [d \in DOMAIN user_routine_days[user_routine_id] \cup {next_day_number} |-> IF d = next_day_number THEN NewDay({}) ELSE user_routine_days[user_routine_id][d]]

create_day_in_routine(user_routine_id) ==
    /\ users # {}
    /\ IF user_routine_id \in DOMAIN user_routines
       THEN /\ SetMax(DOMAIN user_routine_days[user_routine_id] \cup {0}) < MaxDayNumber
            /\ user_routine_days' = [user_routine_days EXCEPT ![user_routine_id] = add_day_to_user_routine(user_routine_id)]
            /\ last' = [op |-> "add_day", status |-> HTTP_201_CREATED, arg |-> NULL]
       ELSE /\ user_routine_days' = user_routine_days
            /\ last' = [op |-> "add_day", status |-> HTTP_404_NOT_FOUND, arg |-> NULL]
    /\ UNCHANGED <<users, elapsed_days, user_routines, genVars>>

delete_day_from_user_routine(user_routine_id, day_number) == [d \in DOMAIN user_routine_days[user_routine_id] \ {day_number} |-> user_routine_days[user_routine_id][d]]

remove_day_from_routine(user_routine_id, day_number) ==
    /\ users # {}
    /\ IF user_routine_id \in DOMAIN user_routines /\ day_number \in DOMAIN user_routine_days[user_routine_id]
       THEN /\ user_routine_days' = [user_routine_days EXCEPT ![user_routine_id] = delete_day_from_user_routine(user_routine_id, day_number)]
            /\ last' = [op |-> "delete_day", status |-> HTTP_204_NO_CONTENT, arg |-> NULL]
       ELSE /\ user_routine_days' = user_routine_days
            /\ last' = [op |-> "delete_day", status |-> HTTP_404_NOT_FOUND, arg |-> NULL]
    /\ UNCHANGED <<users, elapsed_days, user_routines, genVars>>

(***************************************************************************)
(* POST /user/me/workout/save                                              *)
(***************************************************************************)
\* rows of get_active_routine_day_info: the resolved (or overridden) day of
\* the active routine joined with its slot
CurrentDay(r, override_day_number) == COALESCE(override_day_number, COALESCE(user_routines[r].current_day_number, SqlMod(elapsed_days, total_routine_days(r)) + 1))

get_active_routine_day_info(override_day_number) == {[user_routine_id |-> r, day_number |-> CurrentDay(r, override_day_number)] : r \in {x \in ActiveRoutineInfo : CurrentDay(x, override_day_number) \in DOMAIN user_routine_days[x]}}

\* "De-duplicate while preserving order"
RECURSIVE ordered_unique_ids(_)
ordered_unique_ids(exercise_ids) ==
    IF exercise_ids = << >> THEN << >>
    ELSE LET front == ordered_unique_ids(SubSeq(exercise_ids, 1, Len(exercise_ids) - 1))
             eid == exercise_ids[Len(exercise_ids)]
         IN  IF eid # 0 /\ \A i \in 1 .. Len(front) : front[i] # eid THEN Append(front, eid) ELSE front

\* the slot after replace_routine_day_exercises: direct_exercises mode, no
\* focus area, the given exercises with order_in_day 1, 2, ...
replace_routine_day_exercises(exercise_ids) ==
    LET ids == ordered_unique_ids(exercise_ids)
    IN  [exercise_mode |-> "direct_exercises", focus_area_ids |-> {}, exercises |-> {[exercise_id |-> ids[i], order_in_day |-> i] : i \in 1 .. Len(ids)}]

TargetDayInputs == {NULL} \cup (1 .. MaxDayNumber)

SaveExerciseInputs == {<<1>>}

save_workout_into_active_day(target_day_number, exercise_ids) ==
    /\ users # {}
    /\ IF get_active_routine_day_info(target_day_number) = {}
       THEN /\ UNCHANGED <<user_routines, user_routine_days>>
            /\ last' = [op |-> "save_workout", status |-> HTTP_404_NOT_FOUND, arg |-> target_day_number]
       ELSE \E day_info \in get_active_routine_day_info(target_day_number) :
            /\ user_routines' = [user_routines EXCEPT ![day_info.user_routine_id].current_day_number = day_info.day_number]
            /\ user_routine_days' = [user_routine_days EXCEPT ![day_info.user_routine_id][day_info.day_number] = replace_routine_day_exercises(exercise_ids)]
            /\ last' = [op |-> "save_workout", status |-> HTTP_200_OK, arg |-> target_day_number]
    /\ UNCHANGED <<users, elapsed_days, genVars>>

(***************************************************************************)
(* The exercise catalog and the generator's view of the user.  A catalog   *)
(* row carries the exercise's columns and its link tables                  *)
(* (exercise_focus_areas, exercise_fitness_levels, exercise_equipment,     *)
(* exercise_contraindications).                                            *)
(***************************************************************************)
ExerciseIds == 1 .. NumExercises

\* equipment.id of the seeded 'Bodyweight' row
bodyweight_id == 1

\* a small catalog: exercises 1 and 2 suit a beginner with no equipment,
\* exercise 3 is for advanced users only, exercise 4 needs a chair
\* (equipment 3), every further one is a cardio exercise
exercise_catalog ==
    [e \in ExerciseIds |->
        [focus_areas |-> IF e = 3 THEN {1, 2} ELSE IF e % 2 = 1 THEN {1} ELSE {2},
         primary_focus_area_id |-> IF e = 2 THEN NULL ELSE 1,
         fitness_levels |-> IF e = 3 THEN {"advanced"} ELSE {"beginner", "advanced"},
         equipment |-> IF e = 4 THEN {3} ELSE {bodyweight_id},
         contraindications |-> {},
         exercise_type |-> IF e > 4 THEN "cardio" ELSE "muscle_growth"]]

\* the `users` columns the generator reads, with the column defaults
\* (randomness 10, duration 30, objective 'muscle'), and the rows of
\* user_equipment / user_health_issues
default_user_profile == [fitness_level |-> "beginner", equipment_ids |-> {}, health_issue_ids |-> {}, randomness |-> 10, duration |-> 30, objective |-> "muscle", height_cm |-> 170, age |-> 25]

no_response == [detail |-> "", body |-> << >>]

nothing_printed == [wanted |-> NULL, available |-> NULL, guaranteed |-> NULL, remaining_needed |-> NULL]

(***************************************************************************)
(* The routine/day world.                                                  *)
(***************************************************************************)
Init ==
    /\ users = {}
    /\ elapsed_days = 0
    /\ user_routines = << >>
    /\ user_routine_days = << >>
    /\ last = [op |-> "init", status |-> HTTP_200_OK, arg |-> NULL]
    /\ exercises = exercise_catalog
    /\ user_profile = default_user_profile
    /\ user_excluded_exercises_forever = {}
    /\ user_excluded_exercises_today = {}
    /\ user_generated_exercises = {}
    /\ response = no_response
    /\ printed = nothing_printed
    /\ user_custom_exercises = {}
    /\ workout_sessions = {}
    /\ in_flight = << >>

Next ==
    \/ \E w \in WorkoutsPerWeekInputs, rid \in RoutineIdInputs : create_user(w, rid)
    \/ Tick
    \/ \E rid \in RoutineIdInputs : update_user_active_routine(rid)
    \/ \E d \in DayNumberInputs : update_user_active_day(d)
    \/ \E ur \in UserRoutineIdInputs : create_day_in_routine(ur)
    \/ \E ur \in UserRoutineIdInputs, d \in DayNumberInputs : remove_day_from_routine(ur, d)
    \/ \E t \in TargetDayInputs, ids \in SaveExerciseInputs : save_workout_into_active_day(t, ids)

Spec == Init /\ [][Next]_vars

(***************************************************************************)
(* Properties of the routine/day world, checked under Spec.                *)
(***************************************************************************)
ActiveRoutines == {r \in DOMAIN user_routines : user_routines[r].is_active}

CyclicDay(D, L) == (D % L) + 1

\* C1: with L >= 1 day slots in the active routine and no stored override,
\* the day every resolver computes for D elapsed whole days is (D mod L) + 1,
\* it lies in 1..L, and it is the today_day_number the status endpoint
\* answers with whenever it answers.
C1_CyclicDayFormula ==
    \A r \in ActiveRoutineInfo :
        user_routines[r].current_day_number = NULL =>
            LET L == Cardinality(DOMAIN user_routine_days[r])
            IN  /\ L >= 1
                /\ CurrentWorkoutDay_generation(r) = CyclicDay(elapsed_days, L)
                /\ CurrentWorkoutDay_status(r) = CyclicDay(elapsed_days, L)
                /\ ActiveRoutine_current_day_number(r) = CyclicDay(elapsed_days, L)
                /\ CyclicDay(elapsed_days, L) \in 1 .. L
                /\ (get_current_workout_day_status.status = HTTP_200_OK => get_current_workout_day_status.today_day_number = CyclicDay(elapsed_days, L))

\* the cycle has wrapped around: three slots, three days elapsed, day 1 again
C1_Witness ==
    /\ \E r \in ActiveRoutineInfo : user_routines[r].current_day_number = NULL /\ DOMAIN user_routine_days[r] = {1, 2, 3}
    /\ elapsed_days = 3
    /\ get_current_workout_day_status = [status |-> HTTP_200_OK, today_day_number |-> 1]

OverrideWins ==
    \A r \in ActiveRoutineInfo :
        user_routines[r].current_day_number # NULL =>
            /\ CurrentWorkoutDay_generation(r) = user_routines[r].current_day_number
            /\ CurrentWorkoutDay_status(r) = user_routines[r].current_day_number
            /\ ActiveRoutine_current_day_number(r) = user_routines[r].current_day_number
            /\ (get_current_workout_day_status.status = HTTP_200_OK => get_current_workout_day_status.today_day_number = user_routines[r].current_day_number)
            /\ \A row \in get_active_routine_days : row.routine_id = r => \A d \in DOMAIN row.days : row.days[d].is_current_day <=> (d = user_routines[r].current_day_number)

SetActiveDayStoresOverride ==
    (last.op = "set_active_day" /\ last.status = HTTP_201_CREATED) =>
        /\ ActiveRoutines # {}
        /\ \A r \in ActiveRoutines : user_routines[r].current_day_number = last.arg

OverrideOnlyChangedByWrite ==
    \A r \in DOMAIN user_routines :
        user_routines'[r].current_day_number # user_routines[r].current_day_number =>
            /\ last'.op \in {"set_active_day", "save_workout"}
            /\ last'.status \in {HTTP_200_OK, HTTP_201_CREATED}

\* C2: a successful set_active_day(d) stores d for the active routine; the
\* stored value is what every resolver of that routine computes, whatever
\* the number of elapsed days; and the stored value only changes in a step
\* that is itself a successful write of the override (set_active_day or
\* save workout).
C2_OverrideSticks == [](OverrideWins /\ SetActiveDayStoresOverride) /\ [][OverrideOnlyChangedByWrite]_vars

\* override 2 was set by set_active_day (no slot was ever saved into), days
\* went by, the cycle alone would give day 1, the status endpoint answers 2
C2_Witness ==
    /\ last.op = "tick"
    /\ elapsed_days = 2
    /\ \E r \in ActiveRoutineInfo :
        /\ DOMAIN user_routine_days[r] = {1, 2}
        /\ \A d \in {1, 2} : user_routine_days[r][d].exercise_mode = "focus_areas"
        /\ user_routines[r].current_day_number = 2
    /\ get_current_workout_day_status = [status |-> HTTP_200_OK, today_day_number |-> 2]

\* C3: set_active_day(d) is accepted only when 1 <= d <= L, L the number of
\* day slots of the active routine.
C3_AcceptedOnlyInRange ==
    (last.op = "set_active_day" /\ last.status = HTTP_201_CREATED) =>
        \A r \in ActiveRoutines : 1 <= last.arg /\ last.arg <= Cardinality(DOMAIN user_routine_days[r])

\* C4: a set_active_day request that is rejected leaves every stored
\* override (set or not set) as it was.
C4_RejectedKeepsOverride ==
    [][(last'.op = "set_active_day" /\ last'.status = HTTP_400_BAD_REQUEST) =>
        \A r \in DOMAIN user_routines : user_routines'[r].current_day_number = user_routines[r].current_day_number]_vars

\* a day that is no slot was rejected while override 1 was stored
C4_Witness ==
    /\ last.op = "set_active_day"
    /\ last.status = HTTP_400_BAD_REQUEST
    /\ \E r \in ActiveRoutineInfo : last.arg \notin DOMAIN user_routine_days[r] /\ user_routines[r].current_day_number = 1

\* C5: every user has exactly one user routine with is_active = TRUE.
C5_ExactlyOneActive == users # {} => Cardinality(ActiveRoutines) = 1

\* C6: an active-routine update naming a routine that is not one of the
\* user's fails, and the step leaves every is_active flag as it was.
C6_InvalidUpdateKeepsActive ==
    /\ []((last.op = "update_active_routine" /\ last.arg \notin DOMAIN user_routines) => last.status = HTTP_404_NOT_FOUND)
    /\ [][(last'.op = "update_active_routine" /\ last'.status = HTTP_404_NOT_FOUND) => user_routines' = user_routines]_vars

\* the update failed and the routine that was active still is
C6_Witness ==
    /\ last.op = "update_active_routine"
    /\ last.status = HTTP_404_NOT_FOUND
    /\ last.arg = 99
    /\ ActiveRoutines = {4}

(***************************************************************************)
(* POST /generate: retrieval.                                              *)
(***************************************************************************)
Min(a, b) == IF a <= b THEN a ELSE b

Max(a, b) == IF a >= b THEN a ELSE b

\* Python s[:k]
PySlice(s, k) == IF k >= 0 THEN SubSeq(s, 1, Min(k, Len(s))) ELSE SubSeq(s, 1, Max(0, Len(s) + k))

\* math.floor in the place of math.ceil
ceil_rounds_down(a, b) == a \div b

\* math.ceil(a / b) for a >= 0, b > 0
ceil(a, b) == (a + b - 1) \div b

\* random.shuffle: every ordering of the list
RECURSIVE shuffle(_)
shuffle(s) ==
    IF Len(s) <= 1 THEN {s}
    ELSE UNION {{<<s[i]>> \o t : t \in shuffle(SubSeq(s, 1, i - 1) \o SubSeq(s, i + 1, Len(s)))} : i \in 1 .. Len(s)}

\* the calendar date, counted in days from the day the account was created
CURRENT_DATE == elapsed_days

excluded_ids_forever_only == user_excluded_exercises_forever

excluded_ids == user_excluded_exercises_forever \cup {row.exercise_id : row \in {x \in user_excluded_exercises_today : x.excluded_date = CURRENT_DATE}}

\* CTE RankedExercises without its rn column: one row per (exercise, focus
\* area) match that passes the WHERE clause
RankedExercises(fitness_level, focus_area_ids, equipment_ids, health_issue_ids, objective) ==
    {row \in [id : ExerciseIds, primary_focus_area : focus_area_ids] :
        /\ row.primary_focus_area \in exercises[row.id].focus_areas
        /\ fitness_level \in exercises[row.id].fitness_levels
        /\ exercises[row.id].equipment \cap equipment_ids # {}
        /\ exercises[row.id].contraindications \cap health_issue_ids = {}
        /\ exercises[row.id].exercise_type = objective}

\* WHERE rn <= exercises_per_focus.  ROW_NUMBER() numbers each focus area's
\* rows in no specified order, so any exercises_per_focus of them can be the
\* ones that stay.
top_per_focus(ranked, focus_area_ids, exercises_per_focus) ==
    IF \A fa \in focus_area_ids : Cardinality({row \in ranked : row.primary_focus_area = fa}) <= exercises_per_focus
    THEN {ranked}
    ELSE {kept \in SUBSET ranked : \A fa \in focus_area_ids : Cardinality({row \in kept : row.primary_focus_area = fa}) = Min(exercises_per_focus, Cardinality({row \in ranked : row.primary_focus_area = fa}))}

\* SELECT DISTINCT ON (id) ... ORDER BY id, rn: one row per exercise id; the
\* focus area of the row that stays depends on the unspecified rn numbering
\* (and on an unspecified tie-break), so it is any of the id's rows.
UniqueTopExercises(kept) ==
    LET ids == {row.id : row \in kept}
        fas == {row.primary_focus_area : row \in kept}
    IN  {{[id |-> e, primary_focus_area |-> pick[e]] : e \in ids} : pick \in {f \in [ids -> fas] : \A e \in ids : [id |-> e, primary_focus_area |-> f[e]] \in kept}}

\* LIMIT total_limit without an outer ORDER BY
limit(rows, total_limit) ==
    IF Cardinality(rows) <= total_limit THEN {rows}
    ELSE {kept \in SUBSET rows : Cardinality(kept) = total_limit}

\* the result sets the query can return
get_recommended_exercises(fitness_level, focus_area_ids, equipment_ids, health_issue_ids, exercises_per_focus, total_limit, objective) ==
    UNION {UNION {limit(unique, total_limit) : unique \in UniqueTopExercises(kept)} : kept \in top_per_focus(RankedExercises(fitness_level, focus_area_ids, equipment_ids, health_issue_ids, objective), focus_area_ids, exercises_per_focus)}

(***************************************************************************)
(* POST /generate: the profile query.                                      *)
(***************************************************************************)
RECURSIVE set_to_seq(_)
set_to_seq(S) == IF S = {} THEN << >> ELSE LET x == CHOOSE y \in S : TRUE IN <<x>> \o set_to_seq(S \ {x})

\* the joined rows TodayWorkoutData aggregates for one slot: the slot LEFT
\* JOINed with its focus-area rows and with its exercise rows, kept by the
\* FILTER (WHERE e.id IS NOT NULL)
direct_exercise_rows(day) == [focus_area_id : (IF day.focus_area_ids = {} THEN {NULL} ELSE day.focus_area_ids), exercise : day.exercises]

\* json_agg(... ORDER BY urde.order_in_day): rows of equal order_in_day come
\* in any order
json_agg(rows) ==
    {[i \in 1 .. Len(ordered) |-> [id |-> ordered[i].exercise.exercise_id, primary_focus_area |-> exercises[ordered[i].exercise.exercise_id].primary_focus_area_id]] :
        ordered \in {o \in shuffle(set_to_seq(rows)) : \A i \in 1 .. Len(o) - 1 : o[i].exercise.order_in_day <= o[i + 1].exercise.order_in_day}}

\* rows of CTE TodayWorkoutData
TodayWorkoutData ==
    UNION {LET day == user_routine_days[r][CurrentWorkoutDay_generation(r)]
           IN  {[exercise_mode |-> day.exercise_mode,
                 focus_area_ids |-> IF day.exercise_mode = "focus_areas" THEN day.focus_area_ids ELSE {},
                 direct_exercises |-> direct] :
                    direct \in IF day.exercise_mode = "direct_exercises" THEN json_agg(direct_exercise_rows(day)) ELSE {<< >>}} :
           r \in {x \in ActiveRoutineInfo : CurrentWorkoutDay_generation(x) \in DOMAIN user_routine_days[x]}}

\* the rows fetchrow can return: none without a `users` row; the profile
\* LEFT JOINed with TodayWorkoutData otherwise (exercise_mode "null" and no
\* focus area when there is no row for today)
get_profile_for_workout_generation ==
    IF users = {} THEN {}
    ELSE {[fitness_level |-> user_profile.fitness_level, equipment_ids |-> user_profile.equipment_ids, health_issue_ids |-> user_profile.health_issue_ids,
           exercise_mode |-> twd.exercise_mode, focus_area_ids |-> twd.focus_area_ids, direct_exercises |-> twd.direct_exercises,
           randomness |-> user_profile.randomness, duration |-> user_profile.duration, height_cm |-> user_profile.height_cm, age |-> user_profile.age, objective |-> user_profile.objective] :
              twd \in IF TodayWorkoutData = {} THEN {[exercise_mode |-> "null", focus_area_ids |-> {}, direct_exercises |-> << >>]} ELSE TodayWorkoutData}

(***************************************************************************)
(* POST /generate: composition.                                            *)
(***************************************************************************)
TOTAL_EXERCISES_WANTED(duration) ==
    IF duration <= 10 THEN 2
    ELSE IF duration <= 20 THEN 3
    ELSE IF duration <= 30 THEN 4
    ELSE IF duration <= 40 THEN 5
    ELSE IF duration <= 50 THEN 6
    ELSE IF duration <= 60 THEN 7
    ELSE 8 + ((duration - 60) \div 10)

\* sorted(all_suitable_exercises, key=lambda r: r['id'])
RECURSIVE sorted_by_id(_)
sorted_by_id(rows) == IF rows = {} THEN << >> ELSE LET first == CHOOSE r \in rows : \A q \in rows : r.id <= q.id IN <<first>> \o sorted_by_id(rows \ {first})

\* [ex for ex in exercise_list if ex['id'] not in ids]
without_ids(exercise_list, ids) == SelectSeq(exercise_list, LAMBDA ex : ex.id \notin ids)

\* keys of the dict focus_area_exercises, in insertion order
RECURSIVE focus_area_keys(_)
focus_area_keys(all_suitable_exercises) ==
    IF all_suitable_exercises = << >> THEN << >>
    ELSE LET front == focus_area_keys(SubSeq(all_suitable_exercises, 1, Len(all_suitable_exercises) - 1))
             primary_focus == all_suitable_exercises[Len(all_suitable_exercises)].primary_focus_area
         IN  IF \E i \in 1 .. Len(front) : front[i] = primary_focus THEN front ELSE Append(front, primary_focus)

focus_area_exercises(all_suitable_exercises, focus_area) == SelectSeq(all_suitable_exercises, LAMBDA ex : ex.primary_focus_area = focus_area)

\* the loop "Guarantee at least 1 exercise per focus area" over the groups
\* whose keys are `keys`, started with the list `guaranteed`
RECURSIVE guaranteed_exercises(_, _, _, _)
guaranteed_exercises(all_suitable_exercises, keys, wanted, guaranteed) ==
    IF keys = << >> THEN guaranteed
    ELSE LET group == focus_area_exercises(all_suitable_exercises, Head(keys))
             with_first == Append(guaranteed, group[1])
             with_second == IF Len(group) > 1 /\ Len(with_first) < wanted THEN Append(with_first, group[2]) ELSE with_first
         IN  guaranteed_exercises(all_suitable_exercises, Tail(keys), wanted, with_second)

\* the lists final_exercises can be before the last shuffle
final_exercises_untruncated(guaranteed, remaining_pool, wanted, randomness) ==
    LET remaining_needed == wanted - Len(guaranteed)
        fixed_from_remaining == ceil(remaining_needed * (100 - randomness), 100)
        random_from_remaining == remaining_needed - fixed_from_remaining
        fixed == PySlice(remaining_pool, fixed_from_remaining)
        random_pool == SubSeq(remaining_pool, Len(fixed) + 1, Len(remaining_pool))
    IN  IF remaining_needed > 0 /\ remaining_pool # << >>
        THEN {guaranteed \o fixed \o PySlice(shuffled, random_from_remaining) : shuffled \in shuffle(random_pool)}
        ELSE {guaranteed}

final_exercises(guaranteed, remaining_pool, wanted, randomness) ==
    LET remaining_needed == wanted - Len(guaranteed)
        fixed_from_remaining == ceil(remaining_needed * (100 - randomness), 100)
        random_from_remaining == remaining_needed - fixed_from_remaining
        fixed == PySlice(remaining_pool, fixed_from_remaining)
        random_pool == SubSeq(remaining_pool, Len(fixed) + 1, Len(remaining_pool))
    IN  IF remaining_needed > 0 /\ remaining_pool # << >>
        THEN {guaranteed \o fixed \o PySlice(shuffled, random_from_remaining) : shuffled \in shuffle(random_pool)}
        ELSE {PySlice(guaranteed, wanted)}

\* the table after store_user_generated_exercises: DELETE, then one COPY of
\* the rows of the user after the call.  The DELETE runs first, on a
\* connection without a transaction.  calculate_one_rm raises on a NULL
\* height_cm or age, and a COPY that violates UNIQUE(user_id, exercise_id)
\* raises; either exception is caught inside the function, which returns
\* False, and the DELETE stays
store_user_generated_exercises(exercise_ids, user_data) ==
    IF user_data.height_cm = NULL \/ user_data.age = NULL THEN {}
    ELSE IF \A i, j \in 1 .. Len(exercise_ids) : exercise_ids[i] = exercise_ids[j] => i = j
    THEN {exercise_ids[i] : i \in 1 .. Len(exercise_ids)}
    ELSE {}

(***************************************************************************)
(* POST /generate: the handler.                                            *)
(***************************************************************************)
\* raise HTTPException(status_code, detail)
generate_failed(status_code, detail) ==
    /\ last' = [op |-> "generate", status |-> status_code, arg |-> NULL]
    /\ response' = [detail |-> detail, body |-> << >>]
    /\ printed' = nothing_printed
    /\ UNCHANGED user_generated_exercises

\* exercise_mode == 'direct_exercises': the slot's exercises without the
\* excluded ones are returned as they are; nothing is stored
generate_direct_exercises(user_data) ==
    IF user_data.direct_exercises = << >>
    THEN generate_failed(HTTP_400_BAD_REQUEST, "No direct exercises found for today.")
    ELSE IF without_ids(user_data.direct_exercises, excluded_ids) = << >>
    THEN generate_failed(HTTP_400_BAD_REQUEST, "All direct exercises for today have been excluded.")
    ELSE /\ last' = [op |-> "generate", status |-> HTTP_200_OK, arg |-> NULL]
         /\ response' = [detail |-> "", body |-> without_ids(user_data.direct_exercises, excluded_ids)]
         /\ printed' = nothing_printed
         /\ UNCHANGED user_generated_exercises

generate_from_focus_areas(user_data) ==
    LET equipment_ids == user_data.equipment_ids \cup {bodyweight_id}
        p_health_issue_ids == IF user_data.health_issue_ids = {} THEN {0} ELSE user_data.health_issue_ids
        wanted == TOTAL_EXERCISES_WANTED(user_data.duration)
        min_exercises_per_focus == Min(2, wanted \div Cardinality(user_data.focus_area_ids))
        exercises_per_focus == Max(min_exercises_per_focus, 30 \div Cardinality(user_data.focus_area_ids))
        exercise_type_filter == IF user_data.objective = "muscle" THEN "muscle_growth" ELSE user_data.objective
    IN  \E recommended \in get_recommended_exercises(user_data.fitness_level, user_data.focus_area_ids, equipment_ids, p_health_issue_ids, exercises_per_focus, 50, exercise_type_filter) :
            LET all_suitable_exercises == without_ids(sorted_by_id(recommended), excluded_ids)
                randomness == Max(0, Min(100, user_data.randomness))
                guaranteed == guaranteed_exercises(all_suitable_exercises, focus_area_keys(all_suitable_exercises), wanted, << >>)
                remaining_pool == without_ids(all_suitable_exercises, {guaranteed[i].id : i \in 1 .. Len(guaranteed)})
            IN  IF all_suitable_exercises = << >>
                THEN generate_failed(HTTP_404_NOT_FOUND, "No suitable exercises found for today's workout.")
                ELSE \E final \in final_exercises(guaranteed, remaining_pool, wanted, randomness) :
                     \E shuffled \in shuffle(final) :
                        /\ last' = [op |-> "generate", status |-> HTTP_200_OK, arg |-> NULL]
                        /\ response' = [detail |-> "", body |-> shuffled]
                        /\ printed' = [wanted |-> wanted, available |-> Len(all_suitable_exercises), guaranteed |-> Len(guaranteed), remaining_needed |-> wanted - Len(guaranteed)]
                        /\ user_generated_exercises' = store_user_generated_exercises([i \in 1 .. Len(shuffled) |-> shuffled[i].id], user_data)

generate_workout_plan ==
    /\ IF get_profile_for_workout_generation = {}
       THEN generate_failed(HTTP_404_NOT_FOUND, "User profile not found.")
       ELSE \E user_data \in get_profile_for_workout_generation :
                IF user_data.exercise_mode = "direct_exercises"
                THEN generate_direct_exercises(user_data)
                ELSE IF user_data.focus_area_ids = {}
                THEN generate_failed(HTTP_400_BAD_REQUEST, "Could not determine focus areas for today.")
                ELSE generate_from_focus_areas(user_data)
    /\ UNCHANGED <<users, workout_sessions, in_flight, elapsed_days, user_routines, user_routine_days, exercises, user_profile, user_excluded_exercises_forever, user_excluded_exercises_today, user_custom_exercises>>

(***************************************************************************)
(* Focus areas and direct exercises of a day slot.                         *)
(***************************************************************************)
\* the target_day of the queries: the slot exists and belongs to the user
target_day(user_routine_id, day_number) == user_routine_id \in DOMAIN user_routines /\ day_number \in DOMAIN user_routine_days[user_routine_id]

\* a response of a handler that is not the generator
answer(op, status_code, arg) ==
    /\ last' = [op |-> op, status |-> status_code, arg |-> arg]
    /\ response' = no_response
    /\ printed' = nothing_printed

\* INSERT ... ON CONFLICT DO NOTHING RETURNING: a row comes back only when
\* one was inserted
add_focus_area_to_day(user_routine_id, day_number, focus_area_id) ==
    IF target_day(user_routine_id, day_number) /\ focus_area_id \notin user_routine_days[user_routine_id][day_number].focus_area_ids
    THEN [urd |-> [user_routine_days EXCEPT ![user_routine_id][day_number].focus_area_ids = @ \cup {focus_area_id}], success |-> TRUE]
    ELSE [urd |-> user_routine_days, success |-> FALSE]

add_focus_area_to_routine_day(user_routine_id, day_number, focus_area_id) ==
    /\ users # {}
    /\ LET res == add_focus_area_to_day(user_routine_id, day_number, focus_area_id)
       IN  /\ user_routine_days' = res.urd
           /\ answer("add_focus_area", IF res.success THEN HTTP_201_CREATED ELSE HTTP_404_NOT_FOUND, focus_area_id)
    /\ UNCHANGED <<users, workout_sessions, in_flight, elapsed_days, user_routines, exercises, user_profile, user_excluded_exercises_forever, user_excluded_exercises_today, user_generated_exercises, user_custom_exercises>>

delete_focus_area_from_day(user_routine_id, day_number, focus_area_id) ==
    IF target_day(user_routine_id, day_number) /\ focus_area_id \in user_routine_days[user_routine_id][day_number].focus_area_ids
    THEN [urd |-> [user_routine_days EXCEPT ![user_routine_id][day_number].focus_area_ids = @ \ {focus_area_id}], success |-> TRUE]
    ELSE [urd |-> user_routine_days, success |-> FALSE]

remove_focus_area_from_routine_day(user_routine_id, day_number, focus_area_id) ==
    /\ users # {}
    /\ LET res == delete_focus_area_from_day(user_routine_id, day_number, focus_area_id)
       IN  /\ user_routine_days' = res.urd
           /\ answer("delete_focus_area", IF res.success THEN HTTP_204_NO_CONTENT ELSE HTTP_404_NOT_FOUND, focus_area_id)
    /\ UNCHANGED <<users, workout_sessions, in_flight, elapsed_days, user_routines, exercises, user_profile, user_excluded_exercises_forever, user_excluded_exercises_today, user_generated_exercises, user_custom_exercises>>

\* one transaction: a focus_areas slot loses its focus areas and becomes a
\* direct_exercises slot, then the exercise is inserted with the column
\* default order_in_day 1 unless the slot already holds it
add_exercise_to_day(user_routine_id, day_number, exercise_id) ==
    IF ~target_day(user_routine_id, day_number) THEN [urd |-> user_routine_days, success |-> FALSE]
    ELSE LET day == user_routine_days[user_routine_id][day_number]
             switched == IF day.exercise_mode = "focus_areas" THEN [day EXCEPT !.focus_area_ids = {}, !.exercise_mode = "direct_exercises"] ELSE day
             present == \E x \in day.exercises : x.exercise_id = exercise_id
         IN  [urd |-> [user_routine_days EXCEPT ![user_routine_id][day_number] = IF present THEN switched ELSE [switched EXCEPT !.exercises = @ \cup {[exercise_id |-> exercise_id, order_in_day |-> 1]}]],
              success |-> ~present]

add_exercise_to_routine_day(user_routine_id, day_number, exercise_id) ==
    /\ users # {}
    /\ LET res == add_exercise_to_day(user_routine_id, day_number, exercise_id)
       IN  /\ user_routine_days' = res.urd
           /\ answer("add_exercise", IF res.success THEN HTTP_201_CREATED ELSE HTTP_404_NOT_FOUND, exercise_id)
    /\ UNCHANGED <<users, workout_sessions, in_flight, elapsed_days, user_routines, exercises, user_profile, user_excluded_exercises_forever, user_excluded_exercises_today, user_generated_exercises, user_custom_exercises>>

delete_exercise_from_day(user_routine_id, day_number, exercise_id) ==
    IF target_day(user_routine_id, day_number) /\ \E x \in user_routine_days[user_routine_id][day_number].exercises : x.exercise_id = exercise_id
    THEN [urd |-> [user_routine_days EXCEPT ![user_routine_id][day_number].exercises = {x \in @ : x.exercise_id # exercise_id}], success |-> TRUE]
    ELSE [urd |-> user_routine_days, success |-> FALSE]

remove_exercise_from_routine_day(user_routine_id, day_number, exercise_id) ==
    /\ users # {}
    /\ LET res == delete_exercise_from_day(user_routine_id, day_number, exercise_id)
       IN  /\ user_routine_days' = res.urd
           /\ answer("delete_exercise", IF res.success THEN HTTP_204_NO_CONTENT ELSE HTTP_404_NOT_FOUND, exercise_id)
    /\ UNCHANGED <<users, workout_sessions, in_flight, elapsed_days, user_routines, exercises, user_profile, user_excluded_exercises_forever, user_excluded_exercises_today, user_generated_exercises, user_custom_exercises>>

(***************************************************************************)
(* POST /user/exercises/exclude and PATCH /user/me/profile                 *)
(***************************************************************************)
exclude_exercise(exercise_id, exclusion_type) ==
    /\ users # {}
    /\ IF exercise_id \notin DOMAIN exercises
       THEN /\ answer("exclude", HTTP_404_NOT_FOUND, exercise_id)
            /\ UNCHANGED <<user_excluded_exercises_forever, user_excluded_exercises_today>>
       ELSE /\ answer("exclude", HTTP_200_OK, exercise_id)
            /\ IF exclusion_type = "forever"
               THEN /\ user_excluded_exercises_forever' = user_excluded_exercises_forever \cup {exercise_id}
                    /\ UNCHANGED user_excluded_exercises_today
               ELSE /\ user_excluded_exercises_today' = user_excluded_exercises_today \cup {[exercise_id |-> exercise_id, excluded_date |-> CURRENT_DATE]}
                    /\ UNCHANGED user_excluded_exercises_forever
    /\ UNCHANGED <<users, workout_sessions, in_flight, elapsed_days, user_routines, user_routine_days, exercises, user_profile, user_generated_exercises, user_custom_exercises>>

\* payload.model_dump(exclude_unset=True): an unset field is NULL ("" for
\* fitness_level) and keeps its column; a field of payload.nulled was sent
\* as null and sets its column to NULL.  The UPDATE is committed before the
\* response is built; UserDetailResponse requires age and height_cm, so a
\* NULL in either fails the response validation
update_user_profile(payload) ==
    /\ users # {}
    /\ user_profile' = [user_profile EXCEPT !.duration = COALESCE(payload.duration, @), !.randomness = COALESCE(payload.randomness, @), !.fitness_level = IF payload.fitness_level # "" THEN payload.fitness_level ELSE @, !.height_cm = IF "height_cm" \in payload.nulled THEN NULL ELSE @, !.age = IF "age" \in payload.nulled THEN NULL ELSE @]
    /\ answer("update_profile", IF user_profile'.height_cm = NULL \/ user_profile'.age = NULL THEN HTTP_500_INTERNAL_SERVER_ERROR ELSE HTTP_200_OK, NULL)
    /\ UNCHANGED <<users, workout_sessions, in_flight, elapsed_days, user_routines, user_routine_days, exercises, user_excluded_exercises_forever, user_excluded_exercises_today, user_generated_exercises, user_custom_exercises>>

(***************************************************************************)
(* The generator's world: the account exists, 'Push, Pull' is its active   *)
(* routine, today is day 1; the day's content, the exclusions and the      *)
(* profile are edited and workouts are generated.                          *)
(***************************************************************************)
GenDayInputs == {1, 3}

GenExerciseInputs == {1, 2}

ExclusionTypeInputs == {"forever", "today"}

ProfileUpdateInputs == {[duration |-> 10, randomness |-> 100, fitness_level |-> "", nulled |-> {}], [duration |-> NULL, randomness |-> NULL, fitness_level |-> "advanced", nulled |-> {}]}

InitGen ==
    /\ users = {UserId}
    /\ elapsed_days = 0
    /\ user_routines = set_initial_active_routine(assign_default_routines_to_user(2).ur, 4)
    /\ user_routine_days = assign_default_routines_to_user(2).urd
    /\ last = [op |-> "create_user", status |-> HTTP_201_CREATED, arg |-> NULL]
    /\ exercises = exercise_catalog
    /\ user_profile = default_user_profile
    /\ user_excluded_exercises_forever = {}
    /\ user_excluded_exercises_today = {}
    /\ user_generated_exercises = {}
    /\ response = no_response
    /\ printed = nothing_printed
    /\ user_custom_exercises = {}
    /\ workout_sessions = {}
    /\ in_flight = << >>

NextGen ==
    \/ \E ur \in UserRoutineIdInputs, d \in GenDayInputs, fa \in FocusAreaIds : add_focus_area_to_routine_day(ur, d, fa)
    \/ \E ur \in UserRoutineIdInputs, d \in GenDayInputs, fa \in FocusAreaIds : remove_focus_area_from_routine_day(ur, d, fa)
    \/ \E ur \in UserRoutineIdInputs, d \in GenDayInputs, e \in GenExerciseInputs : add_exercise_to_routine_day(ur, d, e)
    \/ \E ur \in UserRoutineIdInputs, d \in GenDayInputs, e \in GenExerciseInputs : remove_exercise_from_routine_day(ur, d, e)
    \/ \E e \in GenExerciseInputs, t \in ExclusionTypeInputs : exclude_exercise(e, t)
    \/ \E payload \in ProfileUpdateInputs : update_user_profile(payload)
    \/ generate_workout_plan

SpecGen == InitGen /\ [][NextGen]_vars

(***************************************************************************)
(* One generation from every catalog, slot content and profile of the      *)
(* input sets below.                                                       *)
(***************************************************************************)
DurationInputs == {10, 20}

RandomnessInputs == {10, 50, 100}

ExcludedInputs == {{}, {1}}

InitCompose ==
    /\ users = {UserId}
    /\ elapsed_days = 0
    /\ user_routines = set_initial_active_routine(assign_default_routines_to_user(2).ur, 4)
    /\ \E focus_area_ids \in SUBSET FocusAreaIds : user_routine_days = [assign_default_routines_to_user(2).urd EXCEPT ![4][1].focus_area_ids = focus_area_ids]
    /\ last = [op |-> "create_user", status |-> HTTP_201_CREATED, arg |-> NULL]
    /\ \E areas \in [ExerciseIds -> SUBSET FocusAreaIds] : exercises = [e \in ExerciseIds |-> [focus_areas |-> areas[e], primary_focus_area_id |-> NULL, fitness_levels |-> {"beginner"}, equipment |-> {bodyweight_id}, contraindications |-> {}, exercise_type |-> "muscle_growth"]]
    /\ \E duration \in DurationInputs, randomness \in RandomnessInputs : user_profile = [default_user_profile EXCEPT !.duration = duration, !.randomness = randomness]
    /\ user_excluded_exercises_forever \in ExcludedInputs
    /\ user_excluded_exercises_today = {}
    /\ user_generated_exercises = {}
    /\ response = no_response
    /\ printed = nothing_printed
    /\ user_custom_exercises = {}
    /\ workout_sessions = {}
    /\ in_flight = << >>

NextCompose == generate_workout_plan

SpecCompose == InitCompose /\ [][NextCompose]_vars

(***************************************************************************)
(* Properties of the generator, checked under SpecCompose and SpecGen.     *)
(***************************************************************************)
\* the slot TodayWorkoutData joins the resolved day with, if there is one
today_slots == {user_routine_days[r][CurrentWorkoutDay_generation(r)] : r \in {x \in ActiveRoutineInfo : CurrentWorkoutDay_generation(x) \in DOMAIN user_routine_days[x]}}

\* the exercises of the given focus areas that pass the filters of the
\* recommendation query for the stored profile and are not excluded
eligible_candidates(focus_area_ids) == {row.id : row \in RankedExercises(user_profile.fitness_level, focus_area_ids, user_profile.equipment_ids \cup {bodyweight_id}, user_profile.health_issue_ids, IF user_profile.objective = "muscle" THEN "muscle_growth" ELSE user_profile.objective)} \ excluded_ids

\* the direct exercises of a slot that are not excluded
direct_candidates(day) == {x.exercise_id : x \in day.exercises} \ excluded_ids

response_ids == {response.body[i].id : i \in 1 .. Len(response.body)}

\* C7: in focus-area mode, when every requested focus area has at least one
\* eligible, not excluded exercise, the generator answers with a list that
\* holds, for each requested focus area, an exercise of that focus area.
C7_FocusAreaCoverage ==
    \A day \in today_slots :
        (/\ last.op = "generate"
         /\ day.exercise_mode = "focus_areas"
         /\ day.focus_area_ids # {}
         /\ \A fa \in day.focus_area_ids : eligible_candidates({fa}) # {})
        => /\ last.status = HTTP_200_OK
           /\ \A fa \in day.focus_area_ids : \E e \in response_ids : fa \in exercises[e].focus_areas

\* C8: a list the generator returns holds no exercise id twice.
C8_NoDuplicateIds ==
    (last.op = "generate" /\ last.status = HTTP_200_OK) =>
        \A i, j \in 1 .. Len(response.body) : response.body[i].id = response.body[j].id => i = j

\* C9: in focus-area mode the generator answers with a list exactly when
\* the pool that survives filtering and exclusion is not empty, and the
\* list then holds min(N, size of that pool) exercises, N being the count
\* derived from the stored duration.
C9_OutputCount ==
    \A day \in today_slots :
        (last.op = "generate" /\ day.exercise_mode = "focus_areas" /\ day.focus_area_ids # {}) =>
            /\ last.status = HTTP_200_OK <=> eligible_candidates(day.focus_area_ids) # {}
            /\ last.status = HTTP_200_OK =>
                /\ printed.wanted = TOTAL_EXERCISES_WANTED(user_profile.duration)
                /\ printed.available = Cardinality(eligible_candidates(day.focus_area_ids))
                /\ Len(response.body) = Min(printed.wanted, printed.available)

\* the pool (4) is larger than N (3): two exercises are guaranteed, the
\* third one is drawn at random (R = 100) and is not the lowest remaining id
C9_Witness ==
    /\ last.op = "generate"
    /\ last.status = HTTP_200_OK
    /\ user_profile.randomness = 100
    /\ printed = [wanted |-> 3, available |-> 4, guaranteed |-> 2, remaining_needed |-> 1]
    /\ Len(response.body) = 3
    /\ response_ids = {1, 2, 4}

profile_not_found == [status |-> HTTP_404_NOT_FOUND, detail |-> "User profile not found."]

no_focus_areas_for_today == [status |-> HTTP_400_BAD_REQUEST, detail |-> "Could not determine focus areas for today."]

\* C10: when the routine and the day resolve and no exercise survives
\* filtering and exclusion, the generator fails, and its response is neither
\* the one it gives without a profile nor the one it gives without an
\* active routine or day; a successful response never has an empty list.
C10_EmptyPoolOutcome ==
    /\ \A day \in today_slots :
        (/\ last.op = "generate"
         /\ IF day.exercise_mode = "focus_areas" THEN eligible_candidates(day.focus_area_ids) = {} ELSE direct_candidates(day) = {})
        => /\ last.status >= HTTP_400_BAD_REQUEST
           /\ [status |-> last.status, detail |-> response.detail] \notin {profile_not_found, no_focus_areas_for_today}
    /\ (last.op = "generate" /\ last.status = HTTP_200_OK) => response.body # << >>

\* C11: an exercise that is excluded forever, or excluded with today's date,
\* is in no list the generator returns, whatever the mode of today's slot.
C11_ExcludedNeverReturned ==
    (last.op = "generate" /\ last.status = HTTP_200_OK) =>
        /\ response_ids \cap user_excluded_exercises_forever = {}
        /\ \A row \in user_excluded_exercises_today : row.excluded_date = CURRENT_DATE => row.exercise_id \notin response_ids

\* focus-area mode: exercise 1 is excluded for today, it passes every filter
\* of the query, and the list is exercise 2 alone
C11_Witness ==
    /\ last.op = "generate"
    /\ last.status = HTTP_200_OK
    /\ \E day \in today_slots : day.exercise_mode = "focus_areas" /\ day.focus_area_ids = {1, 2}
    /\ user_excluded_exercises_forever = {}
    /\ user_excluded_exercises_today = {[exercise_id |-> 1, excluded_date |-> CURRENT_DATE]}
    /\ 1 \in {row.id : row \in RankedExercises(user_profile.fitness_level, {1, 2}, user_profile.equipment_ids \cup {bodyweight_id}, user_profile.health_issue_ids, "muscle_growth")}
    /\ response_ids = {2}

(***************************************************************************)
(* One generation for every stored session duration.                       *)
(***************************************************************************)
InitDuration ==
    /\ users = {UserId}
    /\ elapsed_days = 0
    /\ user_routines = set_initial_active_routine(assign_default_routines_to_user(2).ur, 4)
    /\ user_routine_days = assign_default_routines_to_user(2).urd
    /\ last = [op |-> "create_user", status |-> HTTP_201_CREATED, arg |-> NULL]
    /\ exercises = exercise_catalog
    /\ \E duration \in 1 .. MaxDuration : user_profile = [default_user_profile EXCEPT !.duration = duration]
    /\ user_excluded_exercises_forever = {}
    /\ user_excluded_exercises_today = {}
    /\ user_generated_exercises = {}
    /\ response = no_response
    /\ printed = nothing_printed
    /\ user_custom_exercises = {}
    /\ workout_sessions = {}
    /\ in_flight = << >>

SpecDuration == InitDuration /\ [][NextCompose]_vars

\* C12: the target count the generator works with is 2 for a duration of at
\* most 10 minutes, 3 up to 20, 4 up to 30, 5 up to 40, 6 up to 50, 7 up to
\* 60, and beyond 60 it is 7 plus one for each further full 10 minutes.
C12_TargetCountStepFunction ==
    (last.op = "generate" /\ last.status = HTTP_200_OK) =>
        LET d == user_profile.duration
        IN  printed.wanted = IF d <= 10 THEN 2 ELSE IF d <= 20 THEN 3 ELSE IF d <= 30 THEN 4 ELSE IF d <= 40 THEN 5 ELSE IF d <= 50 THEN 6 ELSE IF d <= 60 THEN 7 ELSE 7 + ((d - 60) \div 10)

(***************************************************************************)
(* PATCH /user/me/routines/{user_routine_id}/days/{day_number}             *)
(***************************************************************************)
Range(s) == {s[i] : i \in DOMAIN s}

\* a COPY of these records meets the table's uniqueness constraint
violates_unique(ids) == \E i, j \in DOMAIN ids : i # j /\ ids[i] = ids[j]

switch_day_to_focus_areas_keeps_exercises(user_routine_id, day_number, focus_area_ids) ==
    IF ~target_day(user_routine_id, day_number) THEN [urd |-> user_routine_days, success |-> FALSE, raised |-> FALSE]
    ELSE IF violates_unique(focus_area_ids) THEN [urd |-> user_routine_days, success |-> FALSE, raised |-> TRUE]
    ELSE [urd |-> [user_routine_days EXCEPT ![user_routine_id][day_number].exercise_mode = "focus_areas", ![user_routine_id][day_number].focus_area_ids = Range(focus_area_ids)],
          success |-> TRUE, raised |-> FALSE]

\* False when the slot is not the user's; an exception when the COPY fails
switch_day_to_focus_areas(user_routine_id, day_number, focus_area_ids) ==
    IF ~target_day(user_routine_id, day_number) THEN [urd |-> user_routine_days, success |-> FALSE, raised |-> FALSE]
    ELSE IF violates_unique(focus_area_ids) THEN [urd |-> user_routine_days, success |-> FALSE, raised |-> TRUE]
    ELSE [urd |-> [user_routine_days EXCEPT ![user_routine_id][day_number] = [exercise_mode |-> "focus_areas", focus_area_ids |-> Range(focus_area_ids), exercises |-> {}]],
          success |-> TRUE, raised |-> FALSE]

\* the exercises branch of the handler: both contents are deleted, the mode
\* is set and the payload's exercises are copied with order_in_day idx + 1
switch_day_to_direct_exercises(user_routine_id, day_number, exercises_payload) ==
    IF ~target_day(user_routine_id, day_number) \/ violates_unique(exercises_payload) \/ 0 \in Range(exercises_payload)
    THEN [urd |-> user_routine_days, success |-> FALSE, raised |-> TRUE]
    ELSE [urd |-> [user_routine_days EXCEPT ![user_routine_id][day_number] = [exercise_mode |-> "direct_exercises", focus_area_ids |-> {}, exercises |-> {[exercise_id |-> exercises_payload[idx], order_in_day |-> idx] : idx \in DOMAIN exercises_payload}]],
          success |-> TRUE, raised |-> FALSE]

\* payload.get(key) is not None exactly for the keys of payload.keys; an
\* HTTPException raised inside the try block is caught by `except Exception`
update_routine_day(user_routine_id, day_number, payload) ==
    /\ users # {}
    /\ IF payload.keys = {"focus_area_ids", "exercises"} \/ payload.keys = {}
       THEN /\ answer("update_day", HTTP_400_BAD_REQUEST, day_number)
            /\ UNCHANGED <<user_routine_days, user_generated_exercises, user_custom_exercises>>
       ELSE IF "focus_area_ids" \in payload.keys
       THEN LET res == switch_day_to_focus_areas(user_routine_id, day_number, payload.focus_area_ids)
            IN  /\ user_routine_days' = res.urd
                /\ answer("update_day", IF res.success THEN HTTP_200_OK ELSE HTTP_500_INTERNAL_SERVER_ERROR, day_number)
                /\ UNCHANGED <<user_generated_exercises, user_custom_exercises>>
       ELSE LET res == switch_day_to_direct_exercises(user_routine_id, day_number, payload.exercises)
            IN  /\ user_routine_days' = res.urd
                /\ answer("update_day", IF res.success THEN HTTP_200_OK ELSE HTTP_500_INTERNAL_SERVER_ERROR, day_number)
                /\ user_generated_exercises' = IF res.success THEN {} ELSE user_generated_exercises
                /\ user_custom_exercises' = IF res.success THEN clear_user_custom_exercises ELSE user_custom_exercises
    /\ UNCHANGED <<users, workout_sessions, in_flight, elapsed_days, user_routines, exercises, user_profile, user_excluded_exercises_forever, user_excluded_exercises_today>>

(***************************************************************************)
(* PATCH /user/me/routine/reorder-days, and the swap of two day slots      *)
(***************************************************************************)
\* the direct_exercises column of days_query: json_agg runs over the join
\* of the slot's focus-area rows with its exercise rows, so an exercise is
\* aggregated once per focus-area row; the COPY of the aggregate then fails
\* on UNIQUE (user_routine_day_id, exercise_id)
copy_raises(data) == data.exercises # {} /\ Cardinality(data.focus_area_ids) >= 2

affected_days(source_day, target_position) == Min(source_day, target_position) .. Max(source_day, target_position)

\* new_arrangement[day]: the row whose content the slot receives
new_arrangement(days, source_day, target_position) ==
    [day \in affected_days(source_day, target_position) |->
        IF day = target_position THEN days[source_day]
        ELSE IF source_day < target_position THEN days[day + 1]
        ELSE days[day - 1]]

ValueError == 1

UniqueViolationError == 2

returned == 0

reorder_routine_days_content(source_day, target_position) ==
    IF source_day = target_position THEN {[urd |-> user_routine_days, outcome |-> returned, affected_days |-> {}]}
    ELSE IF ActiveRoutines = {} THEN {[urd |-> user_routine_days, outcome |-> ValueError, affected_days |-> {}]}
    ELSE {LET days == user_routine_days[user_routine_id]
              affected == affected_days(source_day, target_position)
          IN  IF ~(affected \subseteq DOMAIN days) THEN [urd |-> user_routine_days, outcome |-> ValueError, affected_days |-> {}]
              ELSE IF \E day \in affected : copy_raises(days[day]) THEN [urd |-> user_routine_days, outcome |-> UniqueViolationError, affected_days |-> {}]
              ELSE [urd |-> [user_routine_days EXCEPT ![user_routine_id] = [day \in DOMAIN days |-> IF day \in affected THEN new_arrangement(days, source_day, target_position)[day] ELSE days[day]]],
                    outcome |-> returned, affected_days |-> affected]
          : user_routine_id \in ActiveRoutines}

reorder_routine_days(source_day_number, target_position) ==
    /\ users # {}
    /\ \E reorder_result \in reorder_routine_days_content(source_day_number, target_position) :
        /\ user_routine_days' = reorder_result.urd
        /\ last' = [op |-> "reorder", status |-> IF reorder_result.outcome = returned THEN HTTP_200_OK ELSE IF reorder_result.outcome = ValueError THEN HTTP_400_BAD_REQUEST ELSE HTTP_500_INTERNAL_SERVER_ERROR, arg |-> <<source_day_number, target_position>>]
        /\ response' = [detail |-> "", body |-> [i \in 1 .. Cardinality(reorder_result.affected_days) |-> SetMin(reorder_result.affected_days) + i - 1]]
        /\ printed' = nothing_printed
    /\ UNCHANGED <<users, workout_sessions, in_flight, elapsed_days, user_routines, exercises, user_profile, user_excluded_exercises_forever, user_excluded_exercises_today, user_generated_exercises, user_custom_exercises>>

\* the query function has no route of its own; the step is one call of it
\* and records whether it returned or which exception left it
swap_routine_days_content(from_day, to_day) ==
    /\ users # {}
    /\ IF ActiveRoutines = {}
       THEN /\ user_routine_days' = user_routine_days
            /\ answer("swap", ValueError, <<from_day, to_day>>)
       ELSE \E user_routine_id \in ActiveRoutines :
            LET days == user_routine_days[user_routine_id]
                days_data == {from_day, to_day} \cap DOMAIN days
            IN  IF Cardinality(days_data) # 2
                THEN /\ user_routine_days' = user_routine_days
                     /\ answer("swap", ValueError, <<from_day, to_day>>)
                ELSE IF copy_raises(days[from_day]) \/ copy_raises(days[to_day])
                THEN /\ user_routine_days' = user_routine_days
                     /\ answer("swap", UniqueViolationError, <<from_day, to_day>>)
                ELSE /\ user_routine_days' = [user_routine_days EXCEPT ![user_routine_id][from_day] = days[to_day], ![user_routine_id][to_day] = days[from_day]]
                     /\ answer("swap", returned, <<from_day, to_day>>)
    /\ UNCHANGED <<users, workout_sessions, in_flight, elapsed_days, user_routines, exercises, user_profile, user_excluded_exercises_forever, user_excluded_exercises_today, user_generated_exercises, user_custom_exercises>>

(***************************************************************************)
(* The day-content world: the account exists with 'Push, Pull' active; the *)
(* content of its two day slots is edited, replaced and saved.             *)
(***************************************************************************)
DayUpdateInputs == {[keys |-> {"focus_area_ids"}, focus_area_ids |-> <<1>>, exercises |-> << >>], [keys |-> {"exercises"}, focus_area_ids |-> << >>, exercises |-> <<2, 1>>]}

DayEditInputs == {1, 2}

\* day numbers of requests that name a slot: the two slots and a day the
\* routine does not have
NamedDayInputs == {1, 2, 3}

NextDays ==
    \/ \E d \in DayEditInputs, fa \in FocusAreaIds : add_focus_area_to_routine_day(4, d, fa)
    \/ \E d \in DayEditInputs : add_exercise_to_routine_day(4, d, 1)
    \/ \E d \in NamedDayInputs, payload \in DayUpdateInputs : update_routine_day(4, d, payload)
    \/ save_workout_into_active_day(NULL, <<1>>)
    \/ \E source_day_number, target_position \in NamedDayInputs : reorder_routine_days(source_day_number, target_position)

SpecDays == InitGen /\ [][NextDays]_vars

(***************************************************************************)
(* The day-order world: day slots are added to and deleted from the active *)
(* routine, the first slot is edited, and slots are reordered and swapped. *)
(***************************************************************************)
DayInputs == 1 .. MaxDayNumber

NextReorder ==
    \/ create_day_in_routine(4)
    \/ remove_day_from_routine(4, 2)
    \/ \E fa \in FocusAreaIds : add_focus_area_to_routine_day(4, 1, fa)
    \/ add_exercise_to_routine_day(4, 1, 1)
    \/ \E source_day_number, target_position \in DayInputs : reorder_routine_days(source_day_number, target_position)
    \/ \E from_day, to_day \in DayInputs : swap_routine_days_content(from_day, to_day)

SpecReorder == InitGen /\ [][NextReorder]_vars

(***************************************************************************)
(* Properties of reorder and swap, checked under SpecReorder.              *)
(***************************************************************************)
\* C13: a reorder(source, target) call with source # target, both existing
\* days of the active routine, succeeds; afterwards the target slot holds
\* the content (mode, focus areas, exercises with their order) the source
\* slot held, every other slot of the range min(source, target) ..
\* max(source, target) holds the content of its neighbour on the far side
\* from the source, and every slot outside the range is unchanged.
C13_ReorderMovesContent ==
    [][\A r \in ActiveRoutines :
        (/\ last'.op = "reorder"
         /\ last'.arg[1] # last'.arg[2]
         /\ {last'.arg[1], last'.arg[2]} \subseteq DOMAIN user_routine_days[r])
        => LET source == last'.arg[1]
               target == last'.arg[2]
               before == user_routine_days[r]
               after == user_routine_days'[r]
           IN  /\ last'.status = HTTP_200_OK
               /\ DOMAIN after = DOMAIN before
               /\ after[target] = before[source]
               /\ \A d \in DOMAIN before \ {target} :
                    after[d] = IF d < Min(source, target) \/ d > Max(source, target) THEN before[d]
                               ELSE IF source < target THEN before[d + 1]
                               ELSE before[d - 1]]_vars

\* C14: a swap(a, b) call with a # b, both existing days of the active
\* routine, returns; afterwards slot a holds the content slot b held, slot
\* b holds the content slot a held, and every other slot is unchanged.
C14_SwapExchangesContent ==
    [][\A r \in ActiveRoutines :
        (/\ last'.op = "swap"
         /\ last'.arg[1] # last'.arg[2]
         /\ {last'.arg[1], last'.arg[2]} \subseteq DOMAIN user_routine_days[r])
        => /\ last'.status = returned
           /\ DOMAIN user_routine_days'[r] = DOMAIN user_routine_days[r]
           /\ user_routine_days'[r][last'.arg[1]] = user_routine_days[r][last'.arg[2]]
           /\ user_routine_days'[r][last'.arg[2]] = user_routine_days[r][last'.arg[1]]
           /\ \A d \in DOMAIN user_routine_days[r] \ {last'.arg[1], last'.arg[2]} : user_routine_days'[r][d] = user_routine_days[r][d]]_vars

\* C15: a swap(a, a) call on an existing day of the active routine returns
\* (it raises no exception) and leaves every slot as it was.
C15_SwapSameDayIsNoOp ==
    [][\A r \in ActiveRoutines :
        (/\ last'.op = "swap"
         /\ last'.arg[1] = last'.arg[2]
         /\ last'.arg[1] \in DOMAIN user_routine_days[r])
        => (last'.status = returned /\ user_routine_days' = user_routine_days)]_vars

(***************************************************************************)
(* Properties of the day content, checked under SpecDays.                  *)
(***************************************************************************)
\* the exercise ids a request of the operation can hand to the slot
requested_exercise_ids(op, arg) ==
    IF op = "add_exercise" THEN {{arg}}
    ELSE IF op = "save_workout" THEN {Range(ordered_unique_ids(ids)) : ids \in SaveExerciseInputs}
    ELSE {Range(payload.exercises) : payload \in {p \in DayUpdateInputs : "exercises" \in p.keys}}

requested_focus_area_ids == {Range(payload.focus_area_ids) : payload \in {p \in DayUpdateInputs : "focus_area_ids" \in p.keys}}

\* C16: whenever a day update, add_exercise or save-workout call changes a
\* slot's mode, the slot afterwards holds nothing of the mode it left, and
\* of the mode it entered it holds exactly what the request carried, none of
\* the content the slot held before in that mode.
C16_ModeSwitchStartsEmpty ==
    [][\A r \in DOMAIN user_routine_days : \A d \in DOMAIN user_routine_days[r] :
        (/\ last'.op \in {"update_day", "add_exercise", "save_workout"}
         /\ user_routine_days'[r][d].exercise_mode # user_routine_days[r][d].exercise_mode)
        => LET after == user_routine_days'[r][d]
           IN  IF after.exercise_mode = "direct_exercises"
               THEN /\ after.focus_area_ids = {}
                    /\ {x.exercise_id : x \in after.exercises} \in requested_exercise_ids(last'.op, last'.arg)
               ELSE /\ after.exercises = {}
                    /\ after.focus_area_ids \in requested_focus_area_ids]_vars

\* a slot that save-workout made a direct_exercises slot (the override on
\* day 1 is its trace) is a focus_areas slot again after a day update
C16_Witness ==
    /\ last.op = "update_day" /\ last.status = HTTP_200_OK /\ last.arg = 1
    /\ user_routines[4].current_day_number = 1
    /\ user_routine_days[4][1].exercise_mode = "focus_areas"
    /\ user_routine_days[4][1].exercises = {}

\* C17: in every reachable state a slot in focus_areas mode holds no
\* exercise and a slot in direct_exercises mode holds no focus area.
C17_ModeExclusive ==
    \A r \in DOMAIN user_routine_days : \A d \in DOMAIN user_routine_days[r] :
        LET day == user_routine_days[r][d]
        IN  /\ day.exercise_mode = "focus_areas" => day.exercises = {}
            /\ day.exercise_mode = "direct_exercises" => day.focus_area_ids = {}

\* the day slots of the user's routines
day_slots == UNION {{user_routine_days[r][d] : d \in DOMAIN user_routine_days[r]} : r \in DOMAIN user_routine_days}

\* C18: an add_focus_area call for a focus area the slot already holds
\* reports success and leaves the slot's focus-area set unchanged.  (The
\* response does not name the slot, so the formula speaks of the calls made
\* while every slot the user has holds the focus area.)
C18_AddFocusAreaIdempotent ==
    [][(/\ last'.op = "add_focus_area"
        /\ day_slots # {}
        /\ \A day \in day_slots : last'.arg \in day.focus_area_ids /\ day.exercise_mode = "focus_areas")
       => (last'.status = HTTP_201_CREATED /\ user_routine_days' = user_routine_days)]_vars

\* C19: the row a successful add_exercise call inserts carries the order
\* max(existing orders of the slot) + 1 (1 on an empty slot), so the orders
\* of a slot are pairwise distinct.
C19_AppendOrder ==
    [][\A r \in DOMAIN user_routine_days : \A d \in DOMAIN user_routine_days[r] :
        (last'.op = "add_exercise" /\ last'.status = HTTP_201_CREATED)
        => \A x \in user_routine_days'[r][d].exercises \ user_routine_days[r][d].exercises :
              x.order_in_day = SetMax({y.order_in_day : y \in user_routine_days[r][d].exercises} \cup {0}) + 1]_vars

\* C20: after a successful generate call the stored generated assignments
\* are exactly the ids of the returned list.
C20_StoredEqualsReturned ==
    (last.op = "generate" /\ last.status = HTTP_200_OK) => user_generated_exercises = response_ids

(***************************************************************************)
(* The stored plan: workouts are generated while the profile and the       *)
(* exclusions are edited.                                                  *)
(***************************************************************************)
StoreProfileInputs == {[duration |-> NULL, randomness |-> 100, fitness_level |-> "", nulled |-> {}], [duration |-> NULL, randomness |-> NULL, fitness_level |-> "", nulled |-> {"height_cm"}]}

NextStore ==
    \/ \E payload \in StoreProfileInputs : update_user_profile(payload)
    \/ \E e \in GenExerciseInputs, t \in ExclusionTypeInputs : exclude_exercise(e, t)
    \/ generate_workout_plan

SpecStore == InitGen /\ [][NextStore]_vars

\* C21: a generate call whose replacement of the stored plan did not take
\* place (the stored ids afterwards are not the ids of its response) reports
\* a failure and leaves the stored plan as it was before the call.
C21_FailedStoreRollsBack ==
    [][(last'.op = "generate" /\ user_generated_exercises' # response_ids')
       => (last'.status # HTTP_200_OK /\ user_generated_exercises' = user_generated_exercises)]_vars

(***************************************************************************)
(* Error outcomes of the day handlers, checked under SpecDays.             *)
(***************************************************************************)
\* C22: a day update that names a day number none of the caller's routines
\* has, and a reorder (source # target) that names a day number the active
\* routine does not have, answer 404 and leave every slot as it was.
C22_MissingDayIsNotFound ==
    [][(\/ /\ last'.op = "update_day"
           /\ \A r \in DOMAIN user_routine_days : last'.arg \notin DOMAIN user_routine_days[r]
        \/ /\ last'.op = "reorder"
           /\ last'.arg[1] # last'.arg[2]
           /\ \A r \in ActiveRoutines : ~({last'.arg[1], last'.arg[2]} \subseteq DOMAIN user_routine_days[r]))
       => (last'.status = HTTP_404_NOT_FOUND /\ user_routine_days' = user_routine_days)]_vars

(***************************************************************************)
(* PATCH /user/me/custom-exercises (single exercise_id)                    *)
(***************************************************************************)
\* one transaction that ends without an exception on every path: None for
\* an exercise excluded forever; otherwise today's exclusion of the exercise
\* is deleted, then None without the exercise row, else the upserted row
add_custom_exercise(exercise_id) ==
    IF exercise_id \in user_excluded_exercises_forever
    THEN [custom_exercise |-> NULL, today |-> user_excluded_exercises_today, custom |-> user_custom_exercises]
    ELSE LET today == {row \in user_excluded_exercises_today : ~(row.exercise_id = exercise_id /\ row.excluded_date = CURRENT_DATE)}
         IN  IF exercise_id \notin DOMAIN exercises
             THEN [custom_exercise |-> NULL, today |-> today, custom |-> user_custom_exercises]
             ELSE [custom_exercise |-> exercise_id, today |-> today, custom |-> user_custom_exercises \cup {exercise_id}]

\* the exclusion_check of the endpoint runs after add_custom_exercise
add_custom_exercise_endpoint(exercise_id) ==
    /\ users # {}
    /\ LET res == add_custom_exercise(exercise_id)
           exclusion_check == exercise_id \in user_excluded_exercises_forever \/ \E row \in res.today : row.exercise_id = exercise_id /\ row.excluded_date = CURRENT_DATE
       IN  /\ user_excluded_exercises_today' = res.today
           /\ user_custom_exercises' = res.custom
           /\ answer("add_custom_exercise", IF res.custom_exercise # NULL THEN HTTP_200_OK ELSE IF exclusion_check THEN HTTP_400_BAD_REQUEST ELSE HTTP_404_NOT_FOUND, exercise_id)
    /\ UNCHANGED <<users, workout_sessions, in_flight, elapsed_days, user_routines, user_routine_days, exercises, user_profile, user_excluded_exercises_forever, user_generated_exercises>>

(***************************************************************************)
(* The custom list: exercises are excluded and added to the custom list,   *)
(* and the active day is set.                                              *)
(***************************************************************************)
CustomExerciseInputs == {1, 2, 9}

NextCustom ==
    \/ \E e \in CustomExerciseInputs : add_custom_exercise_endpoint(e)
    \/ \E e \in GenExerciseInputs, t \in ExclusionTypeInputs : exclude_exercise(e, t)
    \/ \E d \in DayNumberInputs : update_user_active_day(d)

SpecCustom == InitGen /\ [][NextCustom]_vars

\* the user's stored state
stored_state == <<users, user_routines, user_routine_days, user_profile, user_excluded_exercises_forever, user_excluded_exercises_today, user_generated_exercises, user_custom_exercises>>

\* C23: a set_active_day request that is rejected (400) writes nothing: the
\* override and every other piece of the user's stored state, the custom
\* exercises included, are the same after the request as before it.
C23_RejectedActiveDayWritesNothing ==
    [][(last'.op = "set_active_day" /\ last'.status = HTTP_400_BAD_REQUEST) => stored_state' = stored_state]_vars

\* C26: an add_custom_exercise call for an exercise that is excluded for the
\* user, forever or for today, returns None (the endpoint answers no 200),
\* adds nothing to the custom list and removes no exclusion.
C26_ExcludedIsNotAdded ==
    [][(last'.op = "add_custom_exercise" /\ last'.arg \in excluded_ids)
       => /\ last'.status # HTTP_200_OK
          /\ user_custom_exercises' = user_custom_exercises
          /\ user_excluded_exercises_forever' = user_excluded_exercises_forever
          /\ user_excluded_exercises_today' = user_excluded_exercises_today]_vars

(***************************************************************************)
(* Requests that run at the same time.  Each request has its own pool      *)
(* connection; a statement of one request sees what the statements of the  *)
(* others have committed before it (READ COMMITTED, no explicit lock).     *)
(***************************************************************************)
RequestIds == 1 .. MaxRequests

\* the handler of request i has reached position pc with these locals
proceed(i, locals) == in_flight' = [j \in DOMAIN in_flight \cup {i} |-> IF j = i THEN locals ELSE in_flight[j]]

\* the response of request i has been sent
respond(i) ==
    /\ i \in DOMAIN in_flight
    /\ in_flight[i].pc = "done"
    /\ in_flight' = [j \in DOMAIN in_flight \ {i} |-> in_flight[j]]
    /\ last' = [op |-> in_flight[i].op, status |-> in_flight[i].status, arg |-> i]
    /\ UNCHANGED <<users, elapsed_days, user_routines, user_routine_days, exercises, user_profile, user_excluded_exercises_forever, user_excluded_exercises_today, user_generated_exercises, response, printed, user_custom_exercises, workout_sessions>>

(***************************************************************************)
(* POST /user/workout/start and POST /user/workout/complete                *)
(***************************************************************************)
existing_session == {ws \in workout_sessions : ws.status = "active"}

\* the SELECT of the active session, first statement of the transaction
start_workout_check(i, exercise_ids) ==
    /\ users # {}
    /\ i \notin DOMAIN in_flight
    /\ IF existing_session # {}
       THEN proceed(i, [op |-> "start_workout", pc |-> "done", status |-> HTTP_400_BAD_REQUEST])
       ELSE proceed(i, [op |-> "start_workout", pc |-> "insert", exercise_ids |-> exercise_ids])
    /\ UNCHANGED <<users, elapsed_days, user_routines, user_routine_days, last, exercises, user_profile, user_excluded_exercises_forever, user_excluded_exercises_today, user_generated_exercises, response, printed, user_custom_exercises, workout_sessions>>

\* the INSERT of the session and of its exercises, and the commit; an
\* exercise id without a row raises 404 and rolls the transaction back
start_workout_insert(i) ==
    /\ i \in DOMAIN in_flight
    /\ in_flight[i].op = "start_workout" /\ in_flight[i].pc = "insert"
    /\ Cardinality(workout_sessions) < MaxSessions
    /\ IF \E k \in DOMAIN in_flight[i].exercise_ids : in_flight[i].exercise_ids[k] \notin DOMAIN exercises
       THEN /\ proceed(i, [op |-> "start_workout", pc |-> "done", status |-> HTTP_404_NOT_FOUND])
            /\ UNCHANGED workout_sessions
       ELSE /\ proceed(i, [op |-> "start_workout", pc |-> "done", status |-> HTTP_200_OK])
            /\ workout_sessions' = workout_sessions \cup {[id |-> Cardinality(workout_sessions) + 1, status |-> "active"]}
    /\ UNCHANGED <<users, elapsed_days, user_routines, user_routine_days, last, exercises, user_profile, user_excluded_exercises_forever, user_excluded_exercises_today, user_generated_exercises, response, printed, user_custom_exercises>>

\* one transaction, taken as one step: fetchrow picks an active session
complete_workout ==
    /\ users # {}
    /\ IF existing_session = {}
       THEN /\ last' = [op |-> "complete_workout", status |-> HTTP_404_NOT_FOUND, arg |-> NULL]
            /\ UNCHANGED workout_sessions
       ELSE \E active_session \in existing_session :
            /\ workout_sessions' = (workout_sessions \ {active_session}) \cup {[active_session EXCEPT !.status = "completed"]}
            /\ last' = [op |-> "complete_workout", status |-> HTTP_200_OK, arg |-> NULL]
    /\ UNCHANGED <<users, elapsed_days, user_routines, user_routine_days, exercises, user_profile, user_excluded_exercises_forever, user_excluded_exercises_today, user_generated_exercises, response, printed, user_custom_exercises, in_flight>>

StartExerciseInputs == {<<1>>, <<9>>}

NextSessions ==
    \/ \E i \in RequestIds, exercise_ids \in StartExerciseInputs : start_workout_check(i, exercise_ids)
    \/ \E i \in RequestIds : start_workout_insert(i)
    \/ \E i \in RequestIds : respond(i)
    \/ complete_workout

SpecSessions == InitGen /\ [][NextSessions]_vars

\* C25: in every reachable state at most one workout session of the user
\* has status 'active'.
C25_AtMostOneActiveSession == Cardinality(existing_session) <= 1

(***************************************************************************)
(* swap_routine_days_content of requests that run at the same time: the    *)
(* SELECT of the two days, then the DELETEs, UPDATEs and COPYs written     *)
(* from what the SELECT returned, and the commit.  A record in flight      *)
(* keeps the stored days its batch of overlapping requests started from.   *)
(***************************************************************************)
\* what one swap, run alone, makes of the stored days
swap_outcome(urd, user_routine_id, from_day, to_day) ==
    LET days == urd[user_routine_id]
    IN  IF Cardinality({from_day, to_day} \cap DOMAIN days) # 2 THEN urd
        ELSE IF copy_raises(days[from_day]) \/ copy_raises(days[to_day]) THEN urd
        ELSE [urd EXCEPT ![user_routine_id][from_day] = days[to_day], ![user_routine_id][to_day] = days[from_day]]

batch_of(i) == IF in_flight = << >> THEN {i} ELSE UNION {in_flight[j].batch : j \in DOMAIN in_flight} \cup {i}

swap_routine_days_content_read(i, from_day, to_day) ==
    /\ users # {}
    /\ ActiveRoutines # {}
    /\ i \notin batch_of(0)
    /\ \E user_routine_id \in ActiveRoutines :
        LET days == user_routine_days[user_routine_id]
            base == IF in_flight = << >> THEN user_routine_days ELSE in_flight[CHOOSE j \in DOMAIN in_flight : TRUE].base
            request == [op |-> "swap", user_routine_id |-> user_routine_id, from_day |-> from_day, to_day |-> to_day, base |-> base, batch |-> batch_of(i)]
            locals == IF Cardinality({from_day, to_day} \cap DOMAIN days) # 2
                      THEN [request EXCEPT !.op = "swap"] @@ [pc |-> "done", status |-> ValueError, days_data |-> << >>]
                      ELSE request @@ [pc |-> "write", status |-> NULL, days_data |-> [d \in {from_day, to_day} |-> days[d]]]
        IN  in_flight' = [j \in DOMAIN in_flight \cup {i} |-> IF j = i THEN locals ELSE [in_flight[j] EXCEPT !.batch = batch_of(i)]]
    /\ UNCHANGED <<users, elapsed_days, user_routines, user_routine_days, last, exercises, user_profile, user_excluded_exercises_forever, user_excluded_exercises_today, user_generated_exercises, response, printed, user_custom_exercises, workout_sessions>>

swap_routine_days_content_write(i) ==
    /\ i \in DOMAIN in_flight
    /\ in_flight[i].op = "swap" /\ in_flight[i].pc = "write"
    /\ LET request == in_flight[i]
           from_day_data == request.days_data[request.from_day]
           to_day_data == request.days_data[request.to_day]
       IN  IF copy_raises(from_day_data) \/ copy_raises(to_day_data)
           THEN /\ UNCHANGED user_routine_days
                /\ in_flight' = [in_flight EXCEPT ![i].pc = "done", ![i].status = UniqueViolationError]
           ELSE /\ user_routine_days' = [user_routine_days EXCEPT ![request.user_routine_id][request.from_day] = to_day_data, ![request.user_routine_id][request.to_day] = from_day_data]
                /\ in_flight' = [in_flight EXCEPT ![i].pc = "done", ![i].status = returned]
    /\ UNCHANGED <<users, elapsed_days, user_routines, last, exercises, user_profile, user_excluded_exercises_forever, user_excluded_exercises_today, user_generated_exercises, response, printed, user_custom_exercises, workout_sessions>>

\* the stored days that the requests of a batch leave when they run one
\* after the other, in any order
RECURSIVE serial_outcomes(_, _)
serial_outcomes(urd, requests) ==
    IF requests = {} THEN {urd}
    ELSE UNION {serial_outcomes(swap_outcome(urd, in_flight[i].user_routine_id, in_flight[i].from_day, in_flight[i].to_day), requests \ {i}) : i \in requests}

NextSwaps ==
    \/ \E i \in RequestIds, from_day, to_day \in NamedDayInputs : swap_routine_days_content_read(i, from_day, to_day)
    \/ \E i \in RequestIds : swap_routine_days_content_write(i)
    \/ \E i \in RequestIds : respond(i)
    \/ \E fa \in FocusAreaIds : in_flight = << >> /\ add_focus_area_to_routine_day(4, 1, fa)
    \/ in_flight = << >> /\ add_exercise_to_routine_day(4, 1, 1)

SpecSwaps == InitGen /\ [][NextSwaps]_vars

\* C24: when all requests of a batch of overlapping swaps have committed,
\* the stored days are those of some serial order of the batch.
C24_ConcurrentSwapsSerialized ==
    \A i \in DOMAIN in_flight :
        (in_flight[i].batch \subseteq DOMAIN in_flight /\ \A j \in in_flight[i].batch : in_flight[j].pc = "done")
            => user_routine_days \in serial_outcomes(in_flight[i].base, in_flight[i].batch)

(***************************************************************************)
(* POST /generate of requests that run at the same time.  The handler's    *)
(* connection has no transaction: the profile query and the composition,   *)
(* then the DELETE of store_user_generated_exercises, then its COPY, each  *)
(* statement committed on its own.                                         *)
(***************************************************************************)
\* the answers the handler can compose from the stored state; `store` says
\* whether it goes on to store_user_generated_exercises
generate_from_focus_areas_composed(user_data) ==
    LET equipment_ids == user_data.equipment_ids \cup {bodyweight_id}
        p_health_issue_ids == IF user_data.health_issue_ids = {} THEN {0} ELSE user_data.health_issue_ids
        wanted == TOTAL_EXERCISES_WANTED(user_data.duration)
        min_exercises_per_focus == Min(2, wanted \div Cardinality(user_data.focus_area_ids))
        exercises_per_focus == Max(min_exercises_per_focus, 30 \div Cardinality(user_data.focus_area_ids))
        exercise_type_filter == IF user_data.objective = "muscle" THEN "muscle_growth" ELSE user_data.objective
    IN  UNION {LET all_suitable_exercises == without_ids(sorted_by_id(recommended), excluded_ids)
                   randomness == Max(0, Min(100, user_data.randomness))
                   guaranteed == guaranteed_exercises(all_suitable_exercises, focus_area_keys(all_suitable_exercises), wanted, << >>)
                   remaining_pool == without_ids(all_suitable_exercises, {guaranteed[i].id : i \in 1 .. Len(guaranteed)})
               IN  IF all_suitable_exercises = << >>
                   THEN {[status |-> HTTP_404_NOT_FOUND, body |-> << >>, store |-> FALSE, height_cm |-> user_data.height_cm, age |-> user_data.age]}
                   ELSE UNION {{[status |-> HTTP_200_OK, body |-> shuffled, store |-> TRUE, height_cm |-> user_data.height_cm, age |-> user_data.age] : shuffled \in shuffle(final)} :
                                    final \in final_exercises(guaranteed, remaining_pool, wanted, randomness)} :
               recommended \in get_recommended_exercises(user_data.fitness_level, user_data.focus_area_ids, equipment_ids, p_health_issue_ids, exercises_per_focus, 50, exercise_type_filter)}

generate_workout_plan_composed ==
    IF get_profile_for_workout_generation = {}
    THEN {[status |-> HTTP_404_NOT_FOUND, body |-> << >>, store |-> FALSE, height_cm |-> NULL, age |-> NULL]}
    ELSE UNION {IF user_data.exercise_mode = "direct_exercises"
                THEN IF without_ids(user_data.direct_exercises, excluded_ids) = << >>
                     THEN {[status |-> HTTP_400_BAD_REQUEST, body |-> << >>, store |-> FALSE, height_cm |-> user_data.height_cm, age |-> user_data.age]}
                     ELSE {[status |-> HTTP_200_OK, body |-> without_ids(user_data.direct_exercises, excluded_ids), store |-> FALSE, height_cm |-> user_data.height_cm, age |-> user_data.age]}
                ELSE IF user_data.focus_area_ids = {}
                THEN {[status |-> HTTP_400_BAD_REQUEST, body |-> << >>, store |-> FALSE, height_cm |-> user_data.height_cm, age |-> user_data.age]}
                ELSE generate_from_focus_areas_composed(user_data) :
                user_data \in get_profile_for_workout_generation}

generate_workout_plan_read(i) ==
    /\ i \notin DOMAIN in_flight
    /\ \E composed \in generate_workout_plan_composed :
        proceed(i, [op |-> "generate", pc |-> IF composed.store THEN "delete" ELSE "done", status |-> composed.status, body |-> composed.body, store |-> composed.store, height_cm |-> composed.height_cm, age |-> composed.age])
    /\ UNCHANGED <<users, elapsed_days, user_routines, user_routine_days, last, exercises, user_profile, user_excluded_exercises_forever, user_excluded_exercises_today, user_generated_exercises, response, printed, user_custom_exercises, workout_sessions>>

\* Step 1 and Step 2: the DELETE, then calculate_one_rm, which raises on a
\* NULL height_cm or age
store_user_generated_exercises_delete(i) ==
    /\ i \in DOMAIN in_flight
    /\ in_flight[i].op = "generate" /\ in_flight[i].pc = "delete"
    /\ user_generated_exercises' = {}
    /\ in_flight' = [in_flight EXCEPT ![i].pc = IF in_flight[i].height_cm = NULL \/ in_flight[i].age = NULL THEN "done" ELSE "copy"]
    /\ UNCHANGED <<users, elapsed_days, user_routines, user_routine_days, last, exercises, user_profile, user_excluded_exercises_forever, user_excluded_exercises_today, response, printed, user_custom_exercises, workout_sessions>>

\* Step 3: the COPY; it inserts all its rows or, on a violation of
\* UNIQUE(user_id, exercise_id), none
store_user_generated_exercises_copy(i) ==
    /\ i \in DOMAIN in_flight
    /\ in_flight[i].op = "generate" /\ in_flight[i].pc = "copy"
    /\ LET exercise_ids == [k \in 1 .. Len(in_flight[i].body) |-> in_flight[i].body[k].id]
       IN  user_generated_exercises' = IF violates_unique(exercise_ids) \/ Range(exercise_ids) \cap user_generated_exercises # {}
                                       THEN user_generated_exercises
                                       ELSE user_generated_exercises \cup Range(exercise_ids)
    /\ in_flight' = [in_flight EXCEPT ![i].pc = "done"]
    /\ UNCHANGED <<users, elapsed_days, user_routines, user_routine_days, last, exercises, user_profile, user_excluded_exercises_forever, user_excluded_exercises_today, response, printed, user_custom_exercises, workout_sessions>>

ConcurrentProfileInputs == {[duration |-> 10, randomness |-> 100, fitness_level |-> "advanced", nulled |-> {}], [duration |-> 30, randomness |-> NULL, fitness_level |-> "", nulled |-> {}]}

NextConcurrentGenerate ==
    \/ \E i \in RequestIds : generate_workout_plan_read(i)
    \/ \E i \in RequestIds : store_user_generated_exercises_delete(i)
    \/ \E i \in RequestIds : store_user_generated_exercises_copy(i)
    \/ \E i \in RequestIds : respond(i)
    \/ \E payload \in ConcurrentProfileInputs : in_flight = << >> /\ update_user_profile(payload)
    \/ \E e \in GenExerciseInputs : in_flight = << >> /\ exclude_exercise(e, "forever")
    \/ in_flight = << >> /\ add_exercise_to_routine_day(4, 1, 1)

SpecConcurrentGenerate == InitGen /\ [][NextConcurrentGenerate]_vars

returned_ids(i) == {in_flight[i].body[k].id : k \in 1 .. Len(in_flight[i].body)}

\* C30: when two requests that ran at the same time have both answered 200,
\* the stored plan is the ids of the list one of them returned.
C30_StoredIsOneReturnedList ==
    \A i, j \in DOMAIN in_flight :
        (i # j /\ in_flight[i].pc = "done" /\ in_flight[j].pc = "done" /\ in_flight[i].status = HTTP_200_OK /\ in_flight[j].status = HTTP_200_OK)
            => user_generated_exercises \in {returned_ids(i), returned_ids(j)}

(***************************************************************************)
(* The split of the remainder into a fixed front and a random draw: one    *)
(* generation from every catalog, requested focus-area set, duration and   *)
(* randomness of the input sets below.                                     *)
(***************************************************************************)
SplitDurationInputs == {20, 30}

SplitAreaInputs == {{1}, {1, 2}}

SplitCatalogInputs == {{1}, {2}}

InitSplit ==
    /\ users = {UserId}
    /\ elapsed_days = 0
    /\ user_routines = set_initial_active_routine(assign_default_routines_to_user(2).ur, 4)
    /\ \E focus_area_ids \in SplitAreaInputs : user_routine_days = [assign_default_routines_to_user(2).urd EXCEPT ![4][1].focus_area_ids = focus_area_ids]
    /\ last = [op |-> "create_user", status |-> HTTP_201_CREATED, arg |-> NULL]
    /\ \E areas \in [ExerciseIds -> SplitCatalogInputs] : exercises = [e \in ExerciseIds |-> [focus_areas |-> areas[e], primary_focus_area_id |-> NULL, fitness_levels |-> {"beginner"}, equipment |-> {bodyweight_id}, contraindications |-> {}, exercise_type |-> "muscle_growth"]]
    /\ \E duration \in SplitDurationInputs, randomness \in RandomnessInputs : user_profile = [default_user_profile EXCEPT !.duration = duration, !.randomness = randomness]
    /\ user_excluded_exercises_forever = {}
    /\ user_excluded_exercises_today = {}
    /\ user_generated_exercises = {}
    /\ response = no_response
    /\ printed = nothing_printed
    /\ user_custom_exercises = {}
    /\ workout_sessions = {}
    /\ in_flight = << >>

NextSplit == generate_workout_plan

SpecSplit == InitSplit /\ [][NextSplit]_vars

\* the id-sorted pools the handler can work on for a slot: the results of
\* the recommendation query for the stored profile, without the excluded
all_suitable_exercises_of(day) ==
    LET wanted == TOTAL_EXERCISES_WANTED(user_profile.duration)
        exercises_per_focus == Max(Min(2, wanted \div Cardinality(day.focus_area_ids)), 30 \div Cardinality(day.focus_area_ids))
    IN  {without_ids(sorted_by_id(recommended), excluded_ids) :
            recommended \in get_recommended_exercises(user_profile.fitness_level, day.focus_area_ids, user_profile.equipment_ids \cup {bodyweight_id},
                                                      IF user_profile.health_issue_ids = {} THEN {0} ELSE user_profile.health_issue_ids,
                                                      exercises_per_focus, 50, IF user_profile.objective = "muscle" THEN "muscle_growth" ELSE user_profile.objective)}

ids_of(exercise_list) == {exercise_list[k].id : k \in 1 .. Len(exercise_list)}

\* C27: when the target count exceeds the number of guaranteed exercises,
\* the returned list is the guaranteed exercises, the first
\* fixed = ceil(remaining * (100 - R) / 100) of the id-sorted rest of the
\* pool, and remaining - fixed exercises (or all there are) of what is left
\* behind that front; with R = 100 the front is empty, and composing the
\* same pool with R = 0 gives one selection only, the guaranteed exercises
\* and the lowest remaining ids.
C27_FixedFrontRandomRest ==
    \A day \in today_slots :
        (last.op = "generate" /\ last.status = HTTP_200_OK /\ day.exercise_mode = "focus_areas" /\ printed.remaining_needed > 0) =>
            /\ \E pool \in all_suitable_exercises_of(day) :
                LET wanted == TOTAL_EXERCISES_WANTED(user_profile.duration)
                    guaranteed == guaranteed_exercises(pool, focus_area_keys(pool), wanted, << >>)
                    rest == without_ids(pool, ids_of(guaranteed))
                    remaining == wanted - Len(guaranteed)
                    fixed == CHOOSE f \in 0 .. remaining : 100 * f >= remaining * (100 - user_profile.randomness) /\ 100 * (f - 1) < remaining * (100 - user_profile.randomness)
                    front == {rest[k].id : k \in 1 .. Min(fixed, Len(rest))}
                    behind == {rest[k].id : k \in Min(fixed, Len(rest)) + 1 .. Len(rest)}
                    drawn == response_ids \ (ids_of(guaranteed) \cup front)
                IN  /\ remaining = printed.remaining_needed
                    /\ ids_of(guaranteed) \cup front \subseteq response_ids
                    /\ drawn \subseteq behind
                    /\ Cardinality(drawn) = Min(remaining - fixed, Cardinality(behind))
                    /\ user_profile.randomness = 100 => front = {}
            /\ \A pool \in all_suitable_exercises_of(day) :
                LET wanted == TOTAL_EXERCISES_WANTED(user_profile.duration)
                    guaranteed == guaranteed_exercises(pool, focus_area_keys(pool), wanted, << >>)
                    rest == without_ids(pool, ids_of(guaranteed))
                IN  wanted - Len(guaranteed) > 0 =>
                        {ids_of(final) : final \in final_exercises(guaranteed, rest, wanted, 0)} = {ids_of(guaranteed) \cup {rest[k].id : k \in 1 .. Min(wanted - Len(guaranteed), Len(rest))}}

\* R = 50, three exercises wanted, two guaranteed, a rest of two: the one
\* remaining place is fixed (ceil(0.5) = 1) and goes to the lower id
C27_Witness ==
    /\ last.op = "generate"
    /\ last.status = HTTP_200_OK
    /\ user_profile.randomness = 50
    /\ printed = [wanted |-> 3, available |-> 4, guaranteed |-> 2, remaining_needed |-> 1]
    /\ response_ids = {1, 2, 3}

(***************************************************************************)
(* The resolved day and the slots, checked under Spec.                     *)
(***************************************************************************)
\* C28: whenever the active routine has at least one day slot, the day the
\* resolver gives (the stored override, or the cyclic day) is the
\* day_number of one of its slots.
C28_ResolvedDayIsASlot ==
    \A r \in ActiveRoutineInfo : CurrentWorkoutDay_generation(r) \in DOMAIN user_routine_days[r]

\* C29: a step that is not a successful set_active_day stores no override
\* in a routine that had none, so a routine whose override was never set by
\* set_active_day keeps resolving to (D mod L) + 1 as the days go by, also
\* after a workout was saved without a target day.
C29_CycleKeepsRunning ==
    [][~(last'.op = "set_active_day" /\ last'.status = HTTP_201_CREATED) =>
        \A r \in DOMAIN user_routines \cap DOMAIN user_routines' :
            user_routines[r].current_day_number = NULL =>
                /\ user_routines'[r].current_day_number = NULL
                /\ (r \in ActiveRoutineInfo' => CurrentWorkoutDay_generation(r)' = CyclicDay(elapsed_days', total_routine_days(r)'))]_vars

====
